---- MODULE Spec2Model ----
(***************************************************************************)
(* Verification model of the interface test-automation framework:          *)
(*   - common/yaml_utils.py   the placeholder substitution engine          *)
(*   - common/assertions.py   the assertion engine (directive strategies,  *)
(*                            business-error classification and retry)     *)
(* Text is a TLA+ string (Len, SubSeq and \o act on it character by        *)
(* character).  A Python / JSON value is a tagged record [kind, v]:        *)
(*   null  v = ""            int  v = its decimal digits                   *)
(*   str   v = the text      list v = sequence of values                   *)
(*   dict  v = sequence of <<key, value>> pairs in insertion order         *)
(***************************************************************************)
EXTENDS Integers, Sequences, FiniteSets, TLC

(***************************************************************************)
(* Python str primitives                                                   *)
(***************************************************************************)
Min(S) == CHOOSE m \in S : \A n \in S : m <= n

\* s[i] for a 1-based index i
CharAt(s, i) == IF i >= 1 /\ i <= Len(s) THEN SubSeq(s, i, i) ELSE ""

\* s[i-1:] : the text from the 1-based index i to the end
TextFrom(s, i) == SubSeq(s, i, Len(s))

\* sub occurs in s at the 1-based index i
MatchAt(s, sub, i) == i >= 1 /\ i + Len(sub) - 1 <= Len(s) /\ SubSeq(s, i, i + Len(sub) - 1) = sub

\* s.index(sub, from): the first 1-based index >= from at which sub occurs; 0
\* stands for the ValueError str.index raises when there is none
IndexOf(s, sub, from) ==
    LET hits == {i \in from..(Len(s) - Len(sub) + 1) : MatchAt(s, sub, i)}
    IN IF hits = {} THEN 0 ELSE Min(hits)

\* sub in s
Contains(s, sub) == IndexOf(s, sub, 1) # 0

\* s.startswith(prefix)
StartsWith(s, prefix) == MatchAt(s, prefix, 1)

RECURSIVE CountFrom(_, _, _)
CountFrom(s, sub, from) ==
    LET i == IndexOf(s, sub, from)
    IN IF i = 0 THEN 0 ELSE 1 + CountFrom(s, sub, i + Len(sub))

\* s.count(sub): the number of non-overlapping occurrences
Count(s, sub) == CountFrom(s, sub, 1)

RECURSIVE Replace(_, _, _)
\* s.replace(old, new): every non-overlapping occurrence, left to right
Replace(s, old, new) ==
    LET i == IndexOf(s, old, 1)
    IN IF i = 0 THEN s
       ELSE SubSeq(s, 1, i - 1) \o new \o Replace(TextFrom(s, i + Len(old)), old, new)

RECURSIVE Split(_, _)
\* s.split(sep)
Split(s, sep) ==
    LET i == IndexOf(s, sep, 1)
    IN IF i = 0 THEN <<s>>
       ELSE <<SubSeq(s, 1, i - 1)>> \o Split(TextFrom(s, i + Len(sep)), sep)

RECURSIVE Join(_, _)
\* sep.join(parts)
Join(parts, sep) ==
    IF Len(parts) = 0 THEN ""
    ELSE IF Len(parts) = 1 THEN parts[1]
    ELSE parts[1] \o sep \o Join(Tail(parts), sep)

UpperChar(c) ==
    CASE c = "n" -> "N"
      [] c = "o" -> "O"
      [] c = "e" -> "E"
      [] c = "k" -> "K"
      [] c = "a" -> "A"
      [] c = "b" -> "B"
      [] OTHER -> c

RECURSIVE Upper(_)
\* s.upper(), on the letters the modelled texts use
Upper(s) == IF Len(s) = 0 THEN "" ELSE UpperChar(CharAt(s, 1)) \o Upper(TextFrom(s, 2))

IsDigit(c) == c \in {"0", "1", "2", "3", "4", "5", "6", "7", "8", "9"}

(***************************************************************************)
(* Python values                                                           *)
(***************************************************************************)
PyNone == [kind |-> "null", v |-> ""]
PyInt(digits) == [kind |-> "int", v |-> digits]
PyText(s) == [kind |-> "str", v |-> s]
PyList(items) == [kind |-> "list", v |-> items]
PyDict(pairs) == [kind |-> "dict", v |-> pairs]

\* isinstance(x, dict), isinstance(x, list), isinstance(x, str)
IsDict(x) == x.kind = "dict"
IsList(x) == x.kind = "list"
IsStr(x) == x.kind = "str"

\* bool(x)
Truthy(x) ==
    CASE x.kind = "null" -> FALSE
      [] x.kind = "int" -> x.v # "0"
      [] x.kind = "str" -> x.v # ""
      [] OTHER -> Len(x.v) > 0

\* d.keys() as a set, key in d, d[key] (the last pair of that key)
Keys(d) == {d.v[i][1] : i \in 1..Len(d.v)}
HasKey(d, k) == k \in Keys(d)
Get(d, k) == d.v[CHOOSE i \in 1..Len(d.v) : d.v[i][1] = k /\ \A j \in (i + 1)..Len(d.v) : d.v[j][1] # k][2]

RECURSIVE PyEq(_, _)
\* a == b : lists element by element in order, dicts by key whatever the order
PyEq(a, b) ==
    IF a.kind # b.kind THEN FALSE
    ELSE IF a.kind = "list"
         THEN Len(a.v) = Len(b.v) /\ \A i \in 1..Len(a.v) : PyEq(a.v[i], b.v[i])
    ELSE IF a.kind = "dict"
         THEN Keys(a) = Keys(b) /\ \A k \in Keys(a) : PyEq(Get(a, k), Get(b, k))
    ELSE a.v = b.v

RECURSIVE PyRepr(_)
RECURSIVE ReprItems(_)
RECURSIVE ReprPairs(_)
ReprItems(items) ==
    IF Len(items) = 0 THEN ""
    ELSE IF Len(items) = 1 THEN PyRepr(items[1])
    ELSE PyRepr(items[1]) \o ", " \o ReprItems(Tail(items))

ReprPairs(pairs) ==
    IF Len(pairs) = 0 THEN ""
    ELSE LET one == "'" \o pairs[1][1] \o "': " \o PyRepr(pairs[1][2])
         IN IF Len(pairs) = 1 THEN one ELSE one \o ", " \o ReprPairs(Tail(pairs))

\* repr(x), for texts without quotes or backslashes
PyRepr(x) ==
    CASE x.kind = "null" -> "None"
      [] x.kind = "int" -> x.v
      [] x.kind = "str" -> "'" \o x.v \o "'"
      [] x.kind = "list" -> "[" \o ReprItems(x.v) \o "]"
      [] OTHER -> "{" \o ReprPairs(x.v) \o "}"

\* str(x)
PyStr(x) == IF x.kind = "str" THEN x.v ELSE PyRepr(x)

(***************************************************************************)
(* json.dumps(x, ensure_ascii=False) and json.loads(text), for values of   *)
(* null, integers, texts without quotes or backslashes, lists and dicts    *)
(***************************************************************************)
RECURSIVE JsonDumps(_)
RECURSIVE DumpItems(_)
RECURSIVE DumpPairs(_)
DumpItems(items) ==
    IF Len(items) = 0 THEN ""
    ELSE IF Len(items) = 1 THEN JsonDumps(items[1])
    ELSE JsonDumps(items[1]) \o ", " \o DumpItems(Tail(items))

DumpPairs(pairs) ==
    IF Len(pairs) = 0 THEN ""
    ELSE LET one == "\"" \o pairs[1][1] \o "\": " \o JsonDumps(pairs[1][2])
         IN IF Len(pairs) = 1 THEN one ELSE one \o ", " \o DumpPairs(Tail(pairs))

JsonDumps(x) ==
    CASE x.kind = "null" -> "null"
      [] x.kind = "int" -> x.v
      [] x.kind = "str" -> "\"" \o x.v \o "\""
      [] x.kind = "list" -> "[" \o DumpItems(x.v) \o "]"
      [] OTHER -> "{" \o DumpPairs(x.v) \o "}"

\* the result of a parse: ok = FALSE stands for json.JSONDecodeError
JsonFail == [ok |-> FALSE, val |-> PyNone, pos |-> 0]
JsonOk(val, pos) == [ok |-> TRUE, val |-> val, pos |-> pos]

RECURSIVE SkipWs(_, _)
SkipWs(s, i) == IF CharAt(s, i) = " " THEN SkipWs(s, i + 1) ELSE i

RECURSIVE DigitsEnd(_, _)
DigitsEnd(s, i) == IF IsDigit(CharAt(s, i)) THEN DigitsEnd(s, i + 1) ELSE i

\* a string literal opening at s[i]
ParseString(s, i) ==
    LET j == IndexOf(s, "\"", i + 1)
    IN IF CharAt(s, i) # "\"" \/ j = 0 THEN JsonFail
       ELSE JsonOk(PyText(SubSeq(s, i + 1, j - 1)), j + 1)

\* an integer literal opening at s[i]
ParseNumber(s, i) ==
    LET d == IF CharAt(s, i) = "-" THEN i + 1 ELSE i
        e == DigitsEnd(s, d)
    IN IF e = d \/ (e > d + 1 /\ CharAt(s, d) = "0") THEN JsonFail
       ELSE JsonOk(PyInt(SubSeq(s, i, e - 1)), e)

RECURSIVE ParseValue(_, _)
RECURSIVE ParseItems(_, _, _)
RECURSIVE ParseMembers(_, _, _)
\* the elements of an array after "[" or ",", up to the closing "]"
ParseItems(s, i, acc) ==
    LET r == ParseValue(s, i)
        j == SkipWs(s, r.pos)
    IN IF ~r.ok THEN JsonFail
       ELSE IF CharAt(s, j) = "," THEN ParseItems(s, j + 1, Append(acc, r.val))
       ELSE IF CharAt(s, j) = "]" THEN JsonOk(PyList(Append(acc, r.val)), j + 1)
       ELSE JsonFail

\* the members of an object after "{" or ",", up to the closing "}"
ParseMembers(s, i, acc) ==
    LET k == ParseString(s, SkipWs(s, i))
        c == SkipWs(s, k.pos)
        r == ParseValue(s, c + 1)
        j == SkipWs(s, r.pos)
    IN IF ~k.ok \/ CharAt(s, c) # ":" THEN JsonFail
       ELSE IF ~r.ok THEN JsonFail
       ELSE IF CharAt(s, j) = "," THEN ParseMembers(s, j + 1, Append(acc, <<k.val.v, r.val>>))
       ELSE IF CharAt(s, j) = "}" THEN JsonOk(PyDict(Append(acc, <<k.val.v, r.val>>)), j + 1)
       ELSE JsonFail

ParseValue(s, i0) ==
    LET i == SkipWs(s, i0)
        c == CharAt(s, i)
    IN CASE c = "{" ->
              IF CharAt(s, SkipWs(s, i + 1)) = "}"
              THEN JsonOk(PyDict(<<>>), SkipWs(s, i + 1) + 1)
              ELSE ParseMembers(s, i + 1, <<>>)
         [] c = "[" ->
              IF CharAt(s, SkipWs(s, i + 1)) = "]"
              THEN JsonOk(PyList(<<>>), SkipWs(s, i + 1) + 1)
              ELSE ParseItems(s, i + 1, <<>>)
         [] c = "\"" -> ParseString(s, i)
         [] c = "-" \/ IsDigit(c) -> ParseNumber(s, i)
         [] MatchAt(s, "null", i) -> JsonOk(PyNone, i + 4)
         [] OTHER -> JsonFail

\* json.loads(s): the whole text must be one value
JsonLoads(s) ==
    LET Whole(r) == IF r.ok /\ SkipWs(s, r.pos) = Len(s) + 1 THEN r ELSE JsonFail
    IN Whole(ParseValue(s, 1))

(***************************************************************************)
(* common/assertions.py : the business-error catalog                       *)
(***************************************************************************)
VARIABLES
    business_error_mapping,  \* Assertions._business_error_mapping: HTTP status text -> BusinessError
    business_logic_errors,   \* Assertions._business_logic_errors: body error code -> BusinessError
    expected,                \* assert_result's directive list (a sequence of Python values)
    response,                \* assert_result's parsed response body
    status_code,             \* assert_result's status code (a Python int)
    pc,                      \* "start", "retry" (inside _handle_business_error's loop) or "done"
    attempt,                 \* the loop variable of _handle_business_error
    evals,                   \* how many times _execute_assertions has run in this call
    strategy_calls,          \* how many directive strategies have been invoked in this call
    last_eval,               \* the record of the latest _execute_assertions run
    outcome                  \* how assert_result ended: returned, or raised with an exception chain

DefaultMaxRetries == 3
DefaultRetryDelay == 1

\* the dataclass BusinessError
BusinessError(error_type, error_code, retryable, max_retries, retry_delay) ==
    [error_type |-> error_type, error_code |-> error_code, retryable |-> retryable,
     max_retries |-> max_retries, retry_delay |-> retry_delay]

\* None where a BusinessError is expected
NoBusinessError == BusinessError("none", "", FALSE, 0, 0)

\* the built-in table of Assertions.__init__, by HTTP status
BuiltinErrorMapping ==
    LET be(t, c, r, n, d) == BusinessError(t, c, r, n, d)
        N == DefaultMaxRetries
        D == DefaultRetryDelay
    IN [c \in {"400", "401", "403", "404", "408", "429", "500", "502", "503", "504"} |->
          CASE c = "400" -> be("data_error", c, FALSE, N, D)
            [] c = "401" -> be("auth_error", c, TRUE, N, D)
            [] c = "403" -> be("permission_error", c, FALSE, N, D)
            [] c = "404" -> be("data_error", c, FALSE, N, D)
            [] c = "408" -> be("timeout_error", c, TRUE, 5, D)
            [] c = "429" -> be("system_error", c, TRUE, N, 2)
            [] c = "500" -> be("system_error", c, TRUE, N, D)
            [] c = "502" -> be("network_error", c, TRUE, N, D)
            [] c = "503" -> be("system_error", c, TRUE, N, D)
            [] OTHER -> be("timeout_error", c, TRUE, N, D)]

\* the built-in table of Assertions.__init__, by body error code
BuiltinLogicErrors ==
    LET be(t, c, r) == BusinessError(t, c, r, DefaultMaxRetries, DefaultRetryDelay)
    IN [c \in {"USER_NOT_FOUND", "INVALID_TOKEN", "INSUFFICIENT_BALANCE", "ORDER_NOT_FOUND",
               "PRODUCT_OUT_OF_STOCK"} |->
          CASE c = "USER_NOT_FOUND" -> be("data_error", c, FALSE)
            [] c = "INVALID_TOKEN" -> be("auth_error", c, TRUE)
            [] c = "INSUFFICIENT_BALANCE" -> be("business_logic_error", c, FALSE)
            [] c = "ORDER_NOT_FOUND" -> be("data_error", c, FALSE)
            [] OTHER -> be("business_logic_error", c, FALSE)]

\* what a call that can raise yields: exc is the exception chain, outermost first
\* (<<>> when nothing was raised), val the returned value
Returns(val) == [exc |-> <<>>, val |-> val]
Raises(chain) == [exc |-> chain, val |-> 0]
\* the same for a call that returns a Python value
Yields(val) == [exc |-> <<>>, val |-> val]
Fails(chain) == [exc |-> chain, val |-> PyNone]

\* d.get(key)
DictGet(d, k) == IF HasKey(d, k) THEN Get(d, k) ELSE PyNone

\* _get_business_error: val is the catalog entry, or NoBusinessError for None.
\* `error_code in self._business_logic_errors` hashes error_code: a list or a dict
\* there raises TypeError (unhashable type)
_get_business_error(status, response_data) ==
    IF PyStr(status) \in DOMAIN business_error_mapping
    THEN Returns(business_error_mapping[PyStr(status)])
    ELSE IF Truthy(response_data) /\ IsDict(response_data)
    THEN LET first == DictGet(response_data, "error_code")
             error_code == IF Truthy(first) THEN first ELSE DictGet(response_data, "code")
         IN IF ~Truthy(error_code) THEN Returns(NoBusinessError)
            ELSE IF error_code.kind \in {"list", "dict"}
            THEN [exc |-> <<"TypeError">>, val |-> NoBusinessError]
            ELSE IF IsStr(error_code) /\ error_code.v \in DOMAIN business_logic_errors
            THEN Returns(business_logic_errors[error_code.v])
            ELSE Returns(NoBusinessError)
    ELSE Returns(NoBusinessError)

\* _pre_check_response: raises for a non-retryable business error
_pre_check_response(resp, status) ==
    LET business_error == _get_business_error(status, resp)
    IN IF business_error.exc # <<>> THEN Raises(business_error.exc)
       ELSE IF business_error.val # NoBusinessError /\ ~business_error.val.retryable
       THEN Raises(<<"BusinessAssertionError">>)
       ELSE Returns(0)

(***************************************************************************)
(* jsonpath.jsonpath(obj, path) for paths made of child steps (.name) and   *)
(* descendant steps (..name); <<>> stands for the False it returns when     *)
(* nothing matches                                                          *)
(***************************************************************************)
RECURSIVE PathSteps(_)
\* the normalized steps of a path text after its leading "$"
PathSteps(p) ==
    IF Len(p) = 0 THEN <<>>
    ELSE IF StartsWith(p, "..") THEN <<"..">> \o PathSteps("." \o TextFrom(p, 3))
    ELSE IF StartsWith(p, ".")
    THEN LET dot == IndexOf(p, ".", 2)
             stop == IF dot = 0 THEN Len(p) + 1 ELSE dot
         IN <<SubSeq(p, 2, stop - 1)>> \o PathSteps(TextFrom(p, stop))
    ELSE <<p>>

\* the values of a dict or the items of a list, in order
Children(obj) ==
    IF IsDict(obj) THEN [i \in 1..Len(obj.v) |-> obj.v[i][2]]
    ELSE IF IsList(obj) THEN obj.v
    ELSE <<>>

RECURSIVE Trace(_, _)
RECURSIVE TraceAll(_, _, _)
\* the matches of steps below each of children[i..]
TraceAll(steps, children, i) ==
    IF i > Len(children) THEN <<>>
    ELSE Trace(steps, children[i]) \o TraceAll(steps, children, i + 1)

\* the library's trace(): the values the steps select from obj, in document order
Trace(steps, obj) ==
    IF Len(steps) = 0 THEN <<obj>>
    ELSE IF Head(steps) = ".."
    THEN Trace(Tail(steps), obj) \o TraceAll(steps, Children(obj), 1)
    ELSE IF IsDict(obj) /\ HasKey(obj, Head(steps))
    THEN Trace(Tail(steps), Get(obj, Head(steps)))
    ELSE <<>>

jsonpath(obj, path) ==
    IF Truthy(obj) /\ StartsWith(path, "$") THEN Trace(PathSteps(TextFrom(path, 2)), obj)
    ELSE <<>>

RECURSIVE FlattenOnce(_)
\* lines 166-171: list items are spliced in, one level deep
FlattenOnce(items) ==
    IF Len(items) = 0 THEN <<>>
    ELSE (IF IsList(items[1]) THEN items[1].v ELSE <<items[1]>>) \o FlattenOnce(Tail(items))

\* _safe_jsonpath_extract
_safe_jsonpath_extract(resp, path) == FlattenOnce(jsonpath(resp, path))

_universal_contains_check_plain(extracted_values, assert_value) ==
    \E i \in 1..Len(extracted_values) :
       Contains(PyStr(extracted_values[i]), PyStr(assert_value))

\* _universal_contains_check: TRUE iff some extracted value matches
_universal_contains_check(extracted_values, assert_value) ==
    LET none_expected == Upper(PyStr(assert_value)) = "NONE"
    IN \E i \in 1..Len(extracted_values) :
          LET value == extracted_values[i]
          IN IF none_expected THEN value = PyNone
             ELSE Contains(IF value = PyNone THEN "None" ELSE PyStr(value), PyStr(assert_value))

ContainsFieldMissingPasses(assert_key, assert_value, resp, status) ==
    IF assert_key = "status_code"
    THEN IF PyEq(assert_value, status) THEN 0 ELSE 1
    ELSE IF _universal_contains_check(_safe_jsonpath_extract(resp, "$.." \o assert_key),
                                      assert_value)
         THEN 0
         ELSE IF Len(_safe_jsonpath_extract(resp, "$.." \o assert_key)) = 0 THEN 0 ELSE 1

\* one field of contains_assert's loop (lines 235-256): 1 when unmatched, else 0
ContainsField(assert_key, assert_value, resp, status) ==
    IF assert_key = "status_code"
    THEN IF PyEq(assert_value, status) THEN 0 ELSE 1
    ELSE LET extracted_values == _safe_jsonpath_extract(resp, "$.." \o assert_key)
         IN IF Len(extracted_values) = 0 THEN 1
            ELSE IF _universal_contains_check(extracted_values, assert_value) THEN 0
            ELSE 1

RECURSIVE ContainsFlag(_, _, _)
ContainsFlag(pairs, resp, status) ==
    IF Len(pairs) = 0 THEN 0
    ELSE ContainsField(pairs[1][1], pairs[1][2], resp, status) + ContainsFlag(Tail(pairs), resp, status)

\* contains_assert: the set of its possible outcomes
contains_assert(value, resp, status) ==
    LET pre == _pre_check_response(resp, status)
    IN IF pre.exc # <<>> THEN {Raises(pre.exc)}
       ELSE IF ~IsDict(value) THEN {Raises(<<"AttributeError">>)}
       ELSE {Returns(ContainsFlag(value.v, resp, status))}

EqualFlagAllCommonKeys(expected_results, actual_results, common_key) ==
    IF \A k \in Keys(expected_results) \cap Keys(actual_results) :
          PyEq(Get(actual_results, k), Get(expected_results, k))
    THEN 0 ELSE 1

\* lines 270-288 with common_keys[0] = common_key
EqualFlag(expected_results, actual_results, common_key) ==
    LET new_actual_results == PyDict(<<<<common_key, Get(actual_results, common_key)>>>>)
    IN IF PyEq(new_actual_results, expected_results) THEN 0 ELSE 1

equal_assert_soft(expected_results, actual_results, status) ==
    IF ~IsDict(actual_results) \/ ~IsDict(expected_results) THEN {Returns(1)}
    ELSE LET common_keys == Keys(expected_results) \cap Keys(actual_results)
         IN IF common_keys = {} THEN {Returns(1)}
            ELSE {Returns(IF PyEq(PyDict(<<<<k, Get(actual_results, k)>>>>), expected_results)
                          THEN 0 ELSE 1) : k \in common_keys}

\* equal_assert: the set of its possible outcomes; list(a.keys() & b.keys())[0]
\* is whichever common key the set happens to yield first
equal_assert(expected_results, actual_results, status) ==
    IF ~IsDict(actual_results) \/ ~IsDict(expected_results) THEN {Raises(<<"TypeError">>)}
    ELSE LET common_keys == Keys(expected_results) \cap Keys(actual_results)
         IN IF common_keys = {} THEN {Returns(1)}
            ELSE {Returns(EqualFlag(expected_results, actual_results, k)) : k \in common_keys}

not_equal_assert_some_pair_differs(expected_results, actual_results, status) ==
    IF ~IsDict(actual_results) \/ ~IsDict(expected_results) THEN {Raises(<<"TypeError">>)}
    ELSE IF Keys(expected_results) \cap Keys(actual_results) = {} THEN {Returns(1)}
    ELSE {Returns(IF \E k \in Keys(expected_results) \cap Keys(actual_results) :
                        ~PyEq(Get(actual_results, k), Get(expected_results, k))
                  THEN 0 ELSE 1)}

\* not_equal_assert: the set of its possible outcomes
not_equal_assert(expected_results, actual_results, status) ==
    IF ~IsDict(actual_results) \/ ~IsDict(expected_results) THEN {Raises(<<"TypeError">>)}
    ELSE LET common_keys == Keys(expected_results) \cap Keys(actual_results)
         IN IF common_keys = {} THEN {Returns(1)}
            ELSE {Returns(1 - EqualFlag(expected_results, actual_results, k)) : k \in common_keys}

\* `exp_key in actual_results`: "yes", "no", or "error" (TypeError) by the type of
\* actual_results; a key found in a list or a text then fails at actual_results[exp_key]
RvLookup(exp_key, actual_results) ==
    CASE IsDict(actual_results) -> IF HasKey(actual_results, exp_key) THEN "yes" ELSE "no"
      [] IsList(actual_results) ->
           IF \E i \in 1..Len(actual_results.v) : actual_results.v[i] = PyText(exp_key)
           THEN "error" ELSE "no"
      [] IsStr(actual_results) -> IF Contains(actual_results.v, exp_key) THEN "error" ELSE "no"
      [] OTHER -> "error"

\* one key of assert_response_any's loop (lines 332-354): 1 on a mismatch, a
\* missing key or an unresolved path, else 0
RvField(exp_key, exp_value, actual_results) ==
    IF RvLookup(exp_key, actual_results) = "no" THEN 1
    ELSE LET act_value == Get(actual_results, exp_key)
             is_path == IsStr(act_value) /\ StartsWith(act_value.v, "$.")
             extracted_values == _safe_jsonpath_extract(actual_results, act_value.v)
         IN IF is_path /\ Len(extracted_values) = 0 THEN 1
            ELSE IF PyEq(IF is_path THEN extracted_values[1] ELSE act_value, exp_value) THEN 0
            ELSE 1

RECURSIVE RvFlag(_, _)
RvFlag(pairs, actual_results) ==
    IF Len(pairs) = 0 THEN 0
    ELSE RvField(pairs[1][1], pairs[1][2], actual_results) + RvFlag(Tail(pairs), actual_results)

\* assert_response_any: the set of its possible outcomes; any exception inside
\* is re-raised as the module's AssertionError
assert_response_any(expected_results, actual_results) ==
    IF ~IsDict(expected_results) THEN {Raises(<<"AssertionError", "AttributeError">>)}
    ELSE IF \E i \in 1..Len(expected_results.v) :
               RvLookup(expected_results.v[i][1], actual_results) = "error"
    THEN {Raises(<<"AssertionError", "TypeError">>)}
    ELSE {Returns(RvFlag(expected_results.v, actual_results))}

\* assert_mysql_data: 0 when the external database yields rows, 1 when it yields
\* none or the connection or query raises
assert_mysql_data(expected_results) == {Returns(0), Returns(1)}

(***************************************************************************)
(* common/assertions.py : directive evaluation and the entry point         *)
(***************************************************************************)
\* the values of the enum AssertionType
AssertionType == {"contains", "eq", "ne", "rv", "db"}

\* self._assertion_strategies[AssertionType(key)] applied as lines 443-448 do
Strategy(key, value, resp, status) ==
    CASE key = "contains" -> contains_assert(value, resp, status)
      [] key = "eq" -> equal_assert(value, resp, status)
      [] key = "ne" -> not_equal_assert(value, resp, status)
      [] key = "rv" -> assert_response_any(value, resp)
      [] OTHER -> assert_mysql_data(value)

\* the record of one _execute_assertions run: the exception chain it raised
\* (<<>> when it returned), the failure count summed so far, whether the loop
\* over the directives ran to its end, and one log entry per strategy call
EvalRecord(exc, all_flag, completed, log) ==
    [exc |-> exc, all_flag |-> all_flag, completed |-> completed, log |-> log]
NoEval == EvalRecord(<<>>, 0, FALSE, <<>>)

\* lines 452-453: a key that is no AssertionType is logged, and the loop goes on
UnsupportedKeyCounted(acc) == [acc EXCEPT !.all_flag = @ + 1]
UnsupportedKey(acc) == acc

RECURSIVE EvalItems(_, _, _, _, _, _)
\* lines 432-453 from the j-th item of the i-th list element on: the set of
\* records the loop can end with
EvalItems(exp, i, j, resp, status, acc) ==
    IF i > Len(exp) THEN {[acc EXCEPT !.completed = TRUE]}
    ELSE IF ~IsDict(exp[i]) THEN {[acc EXCEPT !.exc = <<"AttributeError">>]}
    ELSE IF j > Len(exp[i].v) THEN EvalItems(exp, i + 1, 1, resp, status, acc)
    ELSE LET key == exp[i].v[j][1]
             value == exp[i].v[j][2]
         IN IF key \notin AssertionType
            THEN EvalItems(exp, i, j + 1, resp, status, UnsupportedKey(acc))
            ELSE UNION {
                   LET entry == [key |-> key, value |-> value, exc |-> r.exc, flag |-> r.val]
                       next == [acc EXCEPT !.log = Append(@, entry), !.all_flag = @ + r.val]
                   IN IF r.exc # <<>> THEN {[next EXCEPT !.exc = r.exc]}
                      ELSE EvalItems(exp, i, j + 1, resp, status, next)
                   : r \in Strategy(key, value, resp, status)}

_execute_assertions_soft(exp, resp, status) == EvalItems(exp, 1, 1, resp, status, NoEval)

\* _execute_assertions: the set of records it can end with; a completed loop
\* with a nonzero sum ends in `assert False`
_execute_assertions(exp, resp, status) ==
    {IF r.completed /\ r.all_flag # 0 THEN [r EXCEPT !.exc = <<"builtins.AssertionError">>] ELSE r
       : r \in EvalItems(exp, 1, 1, resp, status, NoEval)}

\* `raise` in place of `raise AssertionError(...) from exceptions`: the
\* exception caught at line 416 leaves as it is
OutcomeReraised(kind, exc) == [kind |-> kind, exc |-> IF exc = <<>> THEN exc ELSE Tail(exc)]
Outcome(kind, exc) == [kind |-> kind, exc |-> exc]

\* str(exceptions) at line 418 for the exception that ended an evaluation:
\* `assert False` (line 461) raises the builtin AssertionError without
\* arguments, whose text is empty; the text of any other exception is
\* rendered as the name of its type
ExceptionText(r) == IF r.exc = <<"builtins.AssertionError">> THEN "" ELSE Head(r.exc)

\* line 418: the message of the AssertionError that wraps the exception of an
\* evaluation assert_result ran directly (its fixed prefix rendered in ASCII)
WrappedMessage(r) == "assertion error: " \o ExceptionText(r)

\* the catalog entry assert_result works with (line 409)
business_error == _get_business_error(status_code, response)

\* assert_result up to its first directive evaluation: a classification that
\* raises is wrapped by the handler of lines 416-418; a retryable entry enters
\* _handle_business_error, whose loop runs max_retries times; anything else
\* runs _execute_assertions once, its exception wrapped by the same handler
assert_result ==
    /\ pc = "start"
    /\ UNCHANGED <<business_error_mapping, business_logic_errors, expected, response, status_code>>
    /\ IF business_error.exc # <<>>
       THEN /\ pc' = "done"
            /\ outcome' = Outcome("raised", <<"AssertionError">> \o business_error.exc)
            /\ UNCHANGED <<attempt, evals, strategy_calls, last_eval>>
       ELSE IF business_error.val # NoBusinessError /\ business_error.val.retryable
       THEN IF business_error.val.max_retries <= 0
            THEN /\ pc' = "done"
                 /\ outcome' = Outcome("returned", <<>>)
                 /\ UNCHANGED <<attempt, evals, strategy_calls, last_eval>>
            ELSE /\ pc' = "retry"
                 /\ attempt' = 0
                 /\ UNCHANGED <<evals, strategy_calls, last_eval, outcome>>
       ELSE \E r \in _execute_assertions(expected, response, status_code) :
              /\ pc' = "done"
              /\ evals' = evals + 1
              /\ strategy_calls' = strategy_calls + Len(r.log)
              /\ last_eval' = r
              /\ outcome' = IF r.exc = <<>> THEN Outcome("returned", <<>>)
                            ELSE Outcome("raised", <<"AssertionError">> \o r.exc)
              /\ UNCHANGED attempt

\* line 139 negated: the attempt that just failed was the last one
IsLastAttemptOffByOne(n, max_retries) == ~(n < max_retries)
IsLastAttempt(n, max_retries) == ~(n < max_retries - 1)

\* one iteration of _handle_business_error's loop (lines 133-142): a passing
\* evaluation returns; a failing one sleeps and goes on, or on the last attempt
\* raises BusinessAssertionError(business_error, e), which assert_result's
\* handler wraps in turn
_handle_business_error ==
    /\ pc = "retry"
    /\ UNCHANGED <<business_error_mapping, business_logic_errors, expected, response, status_code>>
    /\ \E r \in _execute_assertions(expected, response, status_code) :
         /\ evals' = evals + 1
         /\ strategy_calls' = strategy_calls + Len(r.log)
         /\ last_eval' = r
         /\ IF r.exc = <<>>
            THEN /\ pc' = "done"
                 /\ outcome' = Outcome("returned", <<>>)
                 /\ UNCHANGED attempt
            ELSE IF ~IsLastAttempt(attempt, business_error.val.max_retries)
            THEN /\ pc' = "retry"
                 /\ attempt' = attempt + 1
                 /\ UNCHANGED outcome
            ELSE /\ pc' = "done"
                 /\ outcome' = Outcome("raised", <<"AssertionError", "BusinessAssertionError">> \o r.exc)
                 /\ UNCHANGED attempt

\* add_business_error_mapping(error_code, business_error), called on the
\* engine before it asserts: the entry is stored as it is given
add_business_error_mapping(error_code, entry) ==
    /\ pc = "configure"
    /\ business_error_mapping' =
          [c \in DOMAIN business_error_mapping \cup {error_code} |->
             IF c = error_code THEN entry ELSE business_error_mapping[c]]
    /\ pc' = "start"
    /\ UNCHANGED <<business_logic_errors, expected, response, status_code, attempt, evals,
                   strategy_calls, last_eval, outcome>>

\* add_business_logic_error(error_code, business_error)
add_business_logic_error(error_code, entry) ==
    /\ pc = "configure"
    /\ business_logic_errors' =
          [c \in DOMAIN business_logic_errors \cup {error_code} |->
             IF c = error_code THEN entry ELSE business_logic_errors[c]]
    /\ pc' = "start"
    /\ UNCHANGED <<business_error_mapping, expected, response, status_code, attempt, evals,
                   strategy_calls, last_eval, outcome>>

(***************************************************************************)
(* common/yaml_utils.py : the placeholder substitution engine              *)
(***************************************************************************)
VARIABLES
    extract_store,  \* the extracted-value store (extract.yaml): name -> Python value
    data,           \* replace_load's argument
    use_handler,    \* whether handler_yaml_list_func is passed (RequestCore.replace_load passes it)
    rpc,            \* "start" or "done"
    resolved        \* what replace_load yielded: its value, or the exception it raised

\* the methods of TestDataUtils the modelled placeholders name
RegisteredFunctions == {"get_extract_data", "timestamp", "timestamp_thirteen"}

\* ReadYamlData.get_extract_yaml(node_name): the stored value; for a name that
\* was never written the reader either raises or yields None
get_extract_yaml(node_name) ==
    IF node_name \in DOMAIN extract_store THEN {Yields(extract_store[node_name])}
    ELSE {Yields(PyNone), Fails(<<"KeyError">>)}

\* TestDataUtils.get_extract_data(node_name, randoms) with a numeric randoms:
\* the dict literal of lines 42-47 evaluates data[randoms - 1], random.choice(data)
\* and both joins before it selects, so data must be a non-empty sequence of
\* texts (a list of texts, or a text, taken character by character)
GetExtractDataIndexed(stored, randoms) ==
    LET items == IF IsStr(stored) THEN [i \in 1..Len(stored.v) |-> PyText(CharAt(stored.v, i))]
                 ELSE IF IsList(stored) THEN stored.v
                 ELSE <<>>
        texts == [i \in 1..Len(items) |-> items[i].v]
        joined == Join(texts, ",")
    IN IF ~IsStr(stored) /\ ~IsList(stored) THEN {Fails(<<"TypeError">>)}
       ELSE IF Len(items) = 0 THEN {Fails(<<"IndexError">>)}
       ELSE IF \E i \in 1..Len(items) : ~IsStr(items[i]) THEN {Fails(<<"TypeError">>)}
       ELSE CASE randoms = "0" -> {Yields(items[i]) : i \in 1..Len(items)}
              [] randoms = "-1" -> {Yields(PyText(joined))}
              [] randoms = "-2" ->
                   {Yields(PyList([i \in 1..Len(Split(joined, ",")) |-> PyText(Split(joined, ",")[i])]))}
              [] randoms = "1" -> {Yields(items[1])}
              [] OTHER -> IF Len(items) >= 2 THEN {Yields(items[2])} ELSE {Fails(<<"IndexError">>)}

\* the numeric values of randoms the modelled placeholders use; any other
\* second argument is taken as a second node name, which no stored value has
Selectors == {"0", "1", "2", "-1", "-2"}

\* getattr(TestDataUtils(), func_name)(*args): the set of possible outcomes
Dispatch(func_name, args) ==
    IF func_name \notin RegisteredFunctions THEN {Fails(<<"AttributeError">>)}
    ELSE IF func_name = "timestamp"
    THEN IF Len(args) = 0 THEN {Yields(PyInt("1700000000")), Yields(PyInt("1700000001"))}
         ELSE {Fails(<<"TypeError">>)}
    ELSE IF func_name = "timestamp_thirteen"
    THEN IF Len(args) = 0 THEN {Yields(PyInt("1700000000000")), Yields(PyInt("1700000001000"))}
         ELSE {Fails(<<"TypeError">>)}
    ELSE IF Len(args) = 1 THEN get_extract_yaml(args[1])
    ELSE IF Len(args) = 2
    THEN IF args[2] \in Selectors
         THEN UNION {IF r.exc # <<>> THEN {r} ELSE GetExtractDataIndexed(r.val, args[2])
                       : r \in get_extract_yaml(args[1])}
         ELSE {Fails(<<"KeyError">>), Yields(PyNone)}
    ELSE {Fails(<<"TypeError">>)}

\* what the substitution loop yields: the exception chain, the text, and the
\* number of functions dispatched
LoopResult(exc, text, calls) == [exc |-> exc, text |-> text, calls |-> calls]

\* lines 46-47: a non-empty list result is joined with commas
JoinIfList(extract_data) ==
    IF Truthy(extract_data) /\ IsList(extract_data)
    THEN PyText(Join([i \in 1..Len(extract_data.v) |-> PyStr(extract_data.v[i])], ","))
    ELSE extract_data

RECURSIVE ReplaceLoop(_, _, _)
\* lines 31-50: n more iterations on str_data
ReplaceLoop(str_data, n, calls) ==
    IF n = 0 THEN {LoopResult(<<>>, str_data, calls)}
    ELSE IF ~(Contains(str_data, "${") /\ Contains(str_data, "}"))
    THEN ReplaceLoop(str_data, n - 1, calls)
    ELSE LET start_index == IndexOf(str_data, "$", 1)
             end_index == IndexOf(str_data, "}", start_index)
             ref_all_params == SubSeq(str_data, start_index, end_index)
             open == IndexOf(ref_all_params, "(", 1)
             close == IndexOf(ref_all_params, ")", 1)
             func_name == SubSeq(ref_all_params, 3, open - 1)
             func_params == SubSeq(ref_all_params, open + 1, close - 1)
             args == IF func_params = "" THEN <<>> ELSE Split(func_params, ",")
         IN IF end_index = 0 \/ open = 0 \/ close = 0
            THEN {LoopResult(<<"ValueError">>, str_data, calls)}
            ELSE UNION {
                   IF r.exc # <<>> THEN {LoopResult(r.exc, str_data, calls + 1)}
                   ELSE ReplaceLoop(Replace(str_data, ref_all_params, PyStr(JoinIfList(r.val))),
                                    n - 1, calls + 1)
                   : r \in Dispatch(func_name, args)}

RECURSIVE HandlerPairs(_)
HandlerPairs(pairs) ==
    IF Len(pairs) = 0 THEN <<>>
    ELSE LET value == pairs[1][2]
             value_lst == Split(Join([i \in 1..Len(value.v) |-> PyStr(value.v[i])], ","), ",")
         IN <<IF IsList(value)
              THEN <<pairs[1][1], PyList([i \in 1..Len(value_lst) |-> PyText(value_lst[i])])>>
              ELSE pairs[1]>> \o HandlerPairs(Tail(pairs))

\* YamlUtils.handler_yaml_list: each list-valued field becomes the list of the
\* texts its comma-joined form splits into
handler_yaml_list(data_dict) == PyDict(HandlerPairs(data_dict.v))

\* what replace_load yields: exc is the exception chain it raised (<<>> when it
\* returned), val the returned value, calls the number of functions dispatched
Resolved(exc, val, calls) == [exc |-> exc, val |-> val, calls |-> calls]

\* lines 52-61 on the text the loop produced
Restore(input, str_data, handler, calls) ==
    LET Loaded(loaded) == IF ~loaded.ok THEN Resolved(<<"JSONDecodeError">>, PyNone, calls)
                          ELSE IF handler /\ IsDict(loaded.val)
                          THEN Resolved(<<>>, handler_yaml_list(loaded.val), calls)
                          ELSE Resolved(<<>>, loaded.val, calls)
    IN IF Truthy(input) /\ IsDict(input) THEN Loaded(JsonLoads(str_data))
       ELSE Resolved(<<>>, PyText(str_data), calls)

\* YamlUtils.replace_load(data, handler_yaml_list_func): the set of its possible results
replace_load(input, handler) ==
    LET str_data == IF IsStr(input) THEN input.v ELSE JsonDumps(input)
    IN {IF r.exc # <<>> THEN Resolved(r.exc, PyNone, r.calls)
        ELSE Restore(input, r.text, handler, r.calls)
          : r \in ReplaceLoop(str_data, Count(str_data, "${"), 0)}

(***************************************************************************)
(* common/extract_utils.py : the extraction engine                         *)
(***************************************************************************)
VARIABLES
    testcase_extract,  \* the rules mapping given to the extractor: <<name, rule>> pairs in document order
    res_text,          \* the body text given to the extractor
    use_list,          \* TRUE for extract_data_list, FALSE for extract_data
    epc,               \* "start" or "done"
    extract_caught     \* the exception the extractor's outer handler caught (<<>> when none)

\* the text both extractors store when a path query yields nothing
NoDataExtracted == PyText("no data extracted, the endpoint may have returned nothing")

\* line 30
pattern_lst == <<"(.+?)", "(.*?)", "(\\d+)", "(\\d*)">>
DigitPatterns == {"(\\d+)", "(\\d*)"}

\* a write that is undone: the store is left as it was
write_yaml_data_dropped(store, key, val) == store

\* ReadYamlData.write_yaml_data({key: val}): the store afterwards
write_yaml_data(store, key, val) ==
    [k \in DOMAIN store \cup {key} |-> IF k = key THEN val ELSE store[k]]

\* re.compile of a rule: the modelled rules are literal text around one
\* capture group of pattern_lst, and a `[` in them is never closed
RegexCompiles(value) == ~Contains(value, "[")

Max(S) == CHOOSE x \in S : \A y \in S : y <= x

\* the lengths the capture group pat can take at the 1-based index g of text
\* so that the literal after follows it; dotall is the flag re.S
GroupLengths(pat, after, text, g, dotall) ==
    {n \in (IF pat \in {"(.+?)", "(\\d+)"} THEN 1 ELSE 0)..(Len(text) - g + 1) :
       /\ \A k \in g..(g + n - 1) :
             IF pat \in DigitPatterns THEN IsDigit(CharAt(text, k))
             ELSE dotall \/ CharAt(text, k) # "\n"
       /\ MatchAt(text, after, g + n)}

NoMatchFound == [found |-> FALSE, group |-> "", stop |-> 0]

\* re.search(value, text) from the index `from` on, for value = before pat after:
\* the leftmost match, its group lazy for (.+?) and (.*?), greedy for the digit groups
Search(before, pat, after, text, from, dotall) ==
    LET starts == {i \in from..(Len(text) + 1) :
                     /\ MatchAt(text, before, i)
                     /\ GroupLengths(pat, after, text, i + Len(before), dotall) # {}}
    IN IF starts = {} THEN NoMatchFound
       ELSE LET i == Min(starts)
                g == i + Len(before)
                lens == GroupLengths(pat, after, text, g, dotall)
                n == IF pat \in DigitPatterns THEN Max(lens) ELSE Min(lens)
            IN [found |-> TRUE, group |-> SubSeq(text, g, g + n - 1),
                stop |-> IF g + n + Len(after) > i THEN g + n + Len(after) ELSE i + 1]

\* the position k of text is where `$` matches: the end, or the line break that ends the text
AtEnd(text, k) == k = Len(text) + 1 \/ (k = Len(text) /\ CharAt(text, k) = "\n")

\* re.search(value, text) for value = before pat after $: the leftmost match
\* whose literal after the group ends the text
SearchAnchored(before, pat, after, text) ==
    LET Lengths(g) == {n \in GroupLengths(pat, after, text, g, FALSE) :
                         AtEnd(text, g + n + Len(after))}
        starts == {i \in 1..(Len(text) + 1) :
                     MatchAt(text, before, i) /\ Lengths(i + Len(before)) # {}}
    IN IF starts = {} THEN NoMatchFound
       ELSE LET g == Min(starts) + Len(before)
                n == IF pat \in DigitPatterns THEN Max(Lengths(g)) ELSE Min(Lengths(g))
            IN [found |-> TRUE, group |-> SubSeq(text, g, g + n - 1), stop |-> Len(text) + 1]

RECURSIVE FindAll(_, _, _, _, _)
\* re.findall(value, text, re.S): the groups of the successive matches
FindAll(before, pat, after, text, from) ==
    LET m == Search(before, pat, after, text, from, TRUE)
    IN IF ~m.found THEN <<>>
       ELSE <<PyText(m.group)>> \o FindAll(before, pat, after, text, m.stop)

\* the literal text of a rule before and after its capture group pat
Before(value, pat) == SubSeq(value, 1, IndexOf(value, pat, 1) - 1)
After(value, pat) == SubSeq(value, IndexOf(value, pat, 1) + Len(pat), Len(value))

RECURSIVE StripZeros(_)
StripZeros(digits) ==
    IF Len(digits) > 1 /\ CharAt(digits, 1) = "0" THEN StripZeros(SubSeq(digits, 2, Len(digits)))
    ELSE digits

\* what a run of an extractor has done so far: the store, the exception that
\* ended its loop (<<>> when none), and the names written, in order
Extraction(store, exc, written) == [store |-> store, exc |-> exc, written |-> written]

Written(acc, key, val) ==
    [acc EXCEPT !.store = write_yaml_data(@, key, val), !.written = Append(@, key)]

RECURSIVE RegexRule(_, _, _, _, _)
\* lines 34-44 from the j-th pattern on
RegexRule(key, value, body, j, acc) ==
    IF j > Len(pattern_lst) THEN acc
    ELSE LET pat == pattern_lst[j]
             Searched(ext_list) ==
                 IF ~ext_list.found THEN RegexRule(key, value, body, j + 1, acc)
                 ELSE IF pat \in DigitPatterns
                 THEN IF ext_list.group = "" THEN [acc EXCEPT !.exc = <<"ValueError">>]
                      ELSE Written(acc, key, PyInt(StripZeros(ext_list.group)))
                 ELSE Written(acc, key, PyText(ext_list.group))
         IN IF ~Contains(value, pat) THEN RegexRule(key, value, body, j + 1, acc)
            ELSE IF ~RegexCompiles(value) THEN [acc EXCEPT !.exc = <<"re.error">>]
            ELSE IF MatchAt(After(value, pat), "$", Len(After(value, pat)))
            THEN Searched(SearchAnchored(Before(value, pat), pat,
                                         SubSeq(After(value, pat), 1, Len(After(value, pat)) - 1),
                                         body))
            ELSE Searched(Search(Before(value, pat), pat, After(value, pat), body, 1, FALSE))

\* lines 47-59: only IndexError and TypeError are handled here
PathRule(key, value, body, acc) ==
    IF ~Contains(value, "$") THEN acc
    ELSE LET Queried(ext_json) ==
                 IF Len(ext_json) > 0 THEN Written(acc, key, ext_json[1])
                 ELSE Written(acc, key, NoDataExtracted)
             Loaded(loaded) ==
                 IF ~loaded.ok THEN [acc EXCEPT !.exc = <<"JSONDecodeError">>]
                 ELSE Queried(jsonpath(loaded.val, value))
         IN Loaded(JsonLoads(body))

\* `pat in value` for a rule that is no text: membership in a list or mapping
\* (no modelled one holds a pattern), a TypeError for anything else
RuleIsIterable(value) == IsStr(value) \/ IsList(value) \/ IsDict(value)

RECURSIVE ExtractRules(_, _, _, _)
\* lines 32-59 from the i-th rule on; an exception ends the loop (line 60)
ExtractRules(pairs, i, body, acc) ==
    IF i > Len(pairs) \/ acc.exc # <<>> THEN acc
    ELSE LET key == pairs[i][1]
             value == pairs[i][2]
         IN IF ~RuleIsIterable(value) THEN [acc EXCEPT !.exc = <<"TypeError">>]
            ELSE IF ~IsStr(value) THEN ExtractRules(pairs, i + 1, body, acc)
            ELSE LET Matched(matched) ==
                         IF matched.exc # <<>> THEN matched
                         ELSE ExtractRules(pairs, i + 1, body,
                                           PathRule(key, value.v, body, matched))
                 IN Matched(RegexRule(key, value.v, body, 1, acc))

\* ExtractUtils.extract_data: returns None whatever happened
extract_data(pairs, body, store) == ExtractRules(pairs, 1, body, Extraction(store, <<>>, <<>>))

\* lines 77-82
RegexListRule(key, value, body, acc) ==
    LET pat == IF Contains(value, "(.+?)") THEN "(.+?)" ELSE "(.*?)"
        Found(ext_list) ==
            IF Len(ext_list) > 0 THEN Written(acc, key, PyList(ext_list)) ELSE acc
    IN IF ~Contains(value, "(.+?)") /\ ~Contains(value, "(.*?)") THEN acc
       ELSE IF ~RegexCompiles(value) THEN [acc EXCEPT !.exc = <<"re.error">>]
       ELSE Found(FindAll(Before(value, pat), pat, After(value, pat), body, 1))

\* lines 85-97: every exception is handled here
PathListRule(key, value, body, acc) ==
    IF ~Contains(value, "$") THEN acc
    ELSE LET Queried(ext_json) ==
                 IF Len(ext_json) > 0 THEN Written(acc, key, PyList(ext_json))
                 ELSE Written(acc, key, NoDataExtracted)
             Loaded(loaded) ==
                 Queried(IF loaded.ok THEN jsonpath(loaded.val, value) ELSE <<>>)
         IN Loaded(JsonLoads(body))

RECURSIVE ExtractListRules(_, _, _, _)
\* lines 75-97 from the i-th rule on; an exception ends the loop (line 98)
ExtractListRules(pairs, i, body, acc) ==
    IF i > Len(pairs) \/ acc.exc # <<>> THEN acc
    ELSE LET key == pairs[i][1]
             value == pairs[i][2]
         IN IF ~RuleIsIterable(value) THEN [acc EXCEPT !.exc = <<"TypeError">>]
            ELSE IF ~IsStr(value) THEN ExtractListRules(pairs, i + 1, body, acc)
            ELSE LET Matched(matched) ==
                         IF matched.exc # <<>> THEN matched
                         ELSE ExtractListRules(pairs, i + 1, body,
                                               PathListRule(key, value.v, body, matched))
                 IN Matched(RegexListRule(key, value.v, body, acc))

\* ExtractUtils.extract_data_list: returns None whatever happened
extract_data_list(pairs, body, store) ==
    ExtractListRules(pairs, 1, body, Extraction(store, <<>>, <<>>))

(***************************************************************************)
(* base/request_core.py, base/apiutil.py, base/apiutil_business.py :       *)
(* the execution of a case and of a multi-step flow                        *)
(***************************************************************************)
VARIABLES
    layer,       \* whose code runs: "core" (RequestCore.execute_case), "base" (apiutil) or "business" (apiutil_business)
    base_info,   \* the caller's base_info mapping
    case_list,   \* the caller's list of case mappings (one case for "core" and "base")
    given,       \* base_info and case_list as the caller passed them
    fpc,         \* "start", "case", "send", "received", "asserting", "returned" or "raised"
    idx,         \* the 1-based index of the case being executed
    locals,      \* header, cookie, case_name, validation, extract, extract_list, url
    res,         \* the response of the latest transport call
    calls,       \* the transport calls so far, in order
    events,      \* <<step, case index>> for the steps taken so far, in order
    handles,     \* the file handles opened so far
    flow_exc     \* the exception chain that reached the caller (<<>> when none)

\* self.conf.get_section_for_data("api_envi", "host")
Host == "http://host"

\* url = url_host + url_path
BuildUrlPathOnly(url_host, url_path) == url_path
BuildUrl(url_host, url_path) == url_host \o url_path

\* d.get(k) in place of d.pop(k): the field stays in the mapping
DictKeep(d, k) == d

\* d.pop(k, None) and d[k] = v on the mapping d
DictPop(d, k) == PyDict(SelectSeq(d.v, LAMBDA p : p[1] # k))
DictSet(d, k, v) ==
    IF HasKey(d, k) THEN PyDict([i \in 1..Len(d.v) |-> IF d.v[i][1] = k THEN <<k, v>> ELSE d.v[i]])
    ELSE PyDict(Append(d.v, <<k, v>>))

RECURSIVE HasNull(_)
HasNull(x) ==
    CASE x.kind = "null" -> TRUE
      [] x.kind = "list" -> \E i \in 1..Len(x.v) : HasNull(x.v[i])
      [] x.kind = "dict" -> \E i \in 1..Len(x.v) : HasNull(x.v[i][2])
      [] OTHER -> FALSE

\* eval(x) of what replace_load returned for a validation or a cookie: a text
\* is read as a literal (the name null is not defined), anything else is no
\* source text
PyEval(x) ==
    LET Literal(loaded) == IF ~loaded.ok THEN Fails(<<"SyntaxError">>)
                           ELSE IF HasNull(loaded.val) THEN Fails(<<"NameError">>)
                           ELSE Yields(loaded.val)
    IN IF ~IsStr(x) THEN Fails(<<"TypeError">>) ELSE Literal(JsonLoads(x.v))

\* whether the layer passes handler_yaml_list to YamlUtils.replace_load
LayerHandler(which) == which # "base"

\* header and cookie as the layer prepares them: core lines 88-94, base lines
\* 55-60, business lines 55-61 (whose bare except discards any error of the
\* cookie resolution); cookie_exc is the error the cookie resolution raised
Prepared(exc, header, cookie, cookie_exc) ==
    [exc |-> exc, header |-> header, cookie |-> cookie, cookie_exc |-> cookie_exc]

PrepareCookie(which, info, header) ==
    IF which = "business"
    THEN IF ~HasKey(info, "cookies") THEN {Prepared(<<>>, header, PyNone, <<"KeyError">>)}
         ELSE {IF c.exc # <<>> THEN Prepared(<<>>, header, PyNone, c.exc)
               ELSE Prepared(<<>>, header, c.val, <<>>)
                 : c \in replace_load(Get(info, "cookies"), TRUE)}
    ELSE IF DictGet(info, "cookies") = PyNone THEN {Prepared(<<>>, header, PyNone, <<>>)}
    ELSE {IF c.exc # <<>> THEN Prepared(c.exc, header, PyNone, c.exc)
          ELSE IF which = "core" THEN Prepared(<<>>, header, c.val, <<>>)
          ELSE LET cookie == PyEval(c.val)
               IN Prepared(cookie.exc, header, cookie.val, cookie.exc)
            : c \in replace_load(Get(info, "cookies"), LayerHandler(which))}

Prepare(which, info) ==
    IF which # "core" /\ ~HasKey(info, "header")
    THEN {Prepared(<<"KeyError">>, PyNone, PyNone, <<>>)}
    ELSE UNION {IF h.exc # <<>> THEN {Prepared(h.exc, PyNone, PyNone, <<>>)}
                ELSE PrepareCookie(which, info, h.val)
                  : h \in replace_load(DictGet(info, "header"), LayerHandler(which))}

params_type == {"data", "json", "params"}

\* what the part of a case execution before the request yields: the exception
\* it raised (<<>> when none), the case mapping as it has been left, the
\* values read from it, and the paths of the files opened, in order
Began(exc, tc, case_name, validation, extract, extract_list, opened) ==
    [exc |-> exc, tc |-> tc, case_name |-> case_name, validation |-> validation,
     extract |-> extract, extract_list |-> extract_list, opened |-> opened]

RECURSIVE ResolveParams(_, _, _)
\* core lines 110-112: every data/json/params field from the i-th on is
\* replaced by its resolution
ResolveParams(which, tc, i) ==
    IF i > Len(tc.v) THEN {[exc |-> <<>>, tc |-> tc]}
    ELSE IF tc.v[i][1] \notin params_type THEN ResolveParams(which, tc, i + 1)
    ELSE UNION {IF r.exc # <<>> THEN {[exc |-> r.exc, tc |-> tc]}
                ELSE ResolveParams(which, DictSet(tc, tc.v[i][1], r.val), i + 1)
                  : r \in replace_load(tc.v[i][2], LayerHandler(which))}

\* core lines 115-120: every entry of files is opened, and `files` keeps the last
OpenFiles(file_cfg) ==
    IF file_cfg = PyNone THEN Yields(PyList(<<>>))
    ELSE IF ~IsDict(file_cfg) THEN Fails(<<"AttributeError">>)
    ELSE Yields(PyList([i \in 1..Len(file_cfg.v) |-> file_cfg.v[i][2]]))

\* core lines 97-120 (base lines 63-83, business lines 63-81) on a case tc0
\* that has a name
ConsumeNamed(which, tc0) ==
    LET tc1 == DictPop(tc0, "case_name")
        case_name == Get(tc0, "case_name")
        tc2 == DictPop(tc1, "validation")
        tc3 == DictPop(DictPop(tc2, "extract"), "extract_list")
        extract == DictGet(tc2, "extract")
        extract_list == DictGet(tc2, "extract_list")
        Files(p, opened) ==
            IF p.exc # <<>>
            THEN Began(p.exc, p.tc, case_name, PyNone, extract, extract_list, <<>>)
            ELSE Began(opened.exc, DictPop(p.tc, "files"), case_name,
                       PyNone, extract, extract_list, opened.val.v)
        Validated(validation) ==
            IF validation.exc # <<>>
            THEN {Began(validation.exc, tc2, case_name, PyNone, PyNone, PyNone, <<>>)}
            ELSE IF /\ which = "business"
                    /\ \/ ~IsList(validation.val)
                       \/ \E i \in 1..Len(validation.val.v) : ~IsDict(validation.val.v[i])
            THEN {Began(<<"AttributeError">>, tc2, case_name, validation.val,
                        PyNone, PyNone, <<>>)}
            ELSE {[Files(p, OpenFiles(DictGet(p.tc, "files")))
                     EXCEPT !.validation = validation.val]
                    : p \in ResolveParams(which, tc3, 1)}
    IN UNION {
         IF val.exc # <<>>
         THEN {Began(val.exc, tc1, case_name, PyNone, PyNone, PyNone, <<>>)}
         ELSE Validated(PyEval(val.val))
         : val \in replace_load(DictGet(tc1, "validation"), LayerHandler(which))}

\* tc.pop("case_name", None) in place of tc.pop("case_name")
BeginCaseNameOptional(which, tc0) ==
    IF ~HasKey(tc0, "case_name")
    THEN ConsumeNamed(which, PyDict(<<<<"case_name", PyNone>>>> \o tc0.v))
    ELSE ConsumeNamed(which, tc0)

\* core lines 97-120 (base lines 63-83, business lines 63-81) on the case
\* tc0: tc.pop("case_name") raises KeyError for a case without a name
BeginCase(which, tc0) ==
    IF ~HasKey(tc0, "case_name")
    THEN {Began(<<"KeyError">>, tc0, PyNone, PyNone, PyNone, PyNone, <<>>)}
    ELSE ConsumeNamed(which, tc0)

\* SendRequest.run_main: what the transport can answer, or the error it raises
Response(status, text) == [raised |-> FALSE, status_code |-> status, text |-> text]
RequestError == [raised |-> TRUE, status_code |-> PyInt("0"), text |-> ""]
NoResponse == Response(PyInt("0"), "")

\* json.loads(res.text)
ResponseJsonLenient(text) ==
    IF JsonLoads(text).ok THEN JsonLoads(text) ELSE JsonOk(PyDict(<<>>), 0)
ResponseJson(text) == JsonLoads(text)

\* where control goes when the execution of case i of n has raised exc:
\* `raise e` at core line 166, base line 122, business line 110
ContinueWithNext(exc, i, n) ==
    IF i < n THEN [fpc |-> "case", idx |-> i + 1, flow_exc |-> <<>>]
    ELSE [fpc |-> "returned", idx |-> i, flow_exc |-> <<>>]
Propagate(exc, i, n) == [fpc |-> "raised", idx |-> i, flow_exc |-> exc]

\* the locals of an execution before anything has been computed
NoLocals ==
    [url |-> "", header |-> PyNone, cookie |-> PyNone, cookie_exc |-> <<>>,
     case_name |-> PyNone, validation |-> PyNone, extract |-> PyNone,
     extract_list |-> PyNone, kwargs |-> PyDict(<<>>)]

\* no handle is closed by the code: once the execution has returned or raised,
\* whether a handle it opened has been reclaimed is up to the runtime
Reclaimed(hs) ==
    {[i \in 1..Len(hs) |-> IF i \in K THEN [hs[i] EXCEPT !.open = FALSE] ELSE hs[i]]
       : K \in SUBSET {i \in 1..Len(hs) : hs[i].open}}

\* control moves to `to`, the handles opened so far being hs
Leave(to, hs) ==
    /\ fpc' = to.fpc
    /\ idx' = to.idx
    /\ flow_exc' = to.flow_exc
    /\ handles' \in (IF to.fpc \in {"returned", "raised"} THEN Reclaimed(hs) ELSE {hs})

flow_inputs == <<layer, base_info, given>>

\* url, header and cookie: core lines 76-94, base lines 45-60, business lines 47-61
prepare ==
    /\ fpc = "start"
    /\ \E p \in Prepare(layer, base_info) :
         /\ locals' = [locals EXCEPT !.url = BuildUrl(Host, Get(base_info, "url").v),
                                     !.header = p.header,
                                     !.cookie = p.cookie,
                                     !.cookie_exc = p.cookie_exc]
         /\ events' = IF p.cookie_exc # <<>> THEN Append(events, <<"cookie_error", idx>>)
                      ELSE events
         /\ IF p.exc # <<>> THEN Leave(Propagate(p.exc, idx, Len(case_list)), handles)
            ELSE Leave([fpc |-> "case", idx |-> idx, flow_exc |-> <<>>], handles)
    /\ UNCHANGED <<flow_inputs, case_list, res, calls, extract_store>>

\* the case's fields are consumed: core lines 97-120, base lines 63-83,
\* business lines 63-81
begin_case ==
    /\ fpc = "case"
    /\ \E b \in BeginCase(layer, case_list[idx]) :
         LET hs == handles \o [i \in 1..Len(b.opened) |->
                                 [case |-> idx, path |-> b.opened[i].v, open |-> TRUE]]
         IN /\ case_list' = [case_list EXCEPT ![idx] = b.tc]
            /\ locals' = [locals EXCEPT !.case_name = b.case_name,
                                        !.validation = b.validation,
                                        !.extract = b.extract,
                                        !.extract_list = b.extract_list,
                                        !.kwargs = b.tc]
            /\ events' = events \o [i \in 1..Len(b.opened) |-> <<"open", idx>>]
            /\ IF b.exc # <<>> THEN Leave(Propagate(b.exc, idx, Len(case_list)), hs)
               ELSE Leave([fpc |-> "send", idx |-> idx, flow_exc |-> <<>>], hs)
    /\ UNCHANGED <<flow_inputs, res, calls, extract_store>>

\* the answers of the transport the flow is run against
TransportAnswers ==
    {Response(PyInt("200"), "{\"code\": 0, \"token\": \"xyz\"}"),
     Response(PyInt("200"), "{\"code\": 1}"),
     Response(PyInt("503"), "{\"code\": 1}"),
     Response(PyInt("503"), "{\"code\": 1, \"token\": \"t2\"}"),
     Response(PyInt("200"), "<html>"),
     RequestError}

\* self.run.run_main(...): core lines 123-132, base lines 85-94, business lines 82-88
send ==
    /\ fpc = "send"
    /\ calls' = Append(calls, [case |-> idx, url |-> locals.url, header |-> locals.header,
                               cookies |-> locals.cookie, kwargs |-> locals.kwargs])
    /\ events' = Append(events, <<"send", idx>>)
    /\ \E r \in TransportAnswers :
         IF r.raised
         THEN /\ Leave(Propagate(<<"RequestException">>, idx, Len(case_list)), handles)
              /\ UNCHANGED res
         ELSE /\ Leave([fpc |-> "received", idx |-> idx, flow_exc |-> <<>>], handles)
              /\ res' = r
    /\ UNCHANGED <<flow_inputs, case_list, locals, extract_store>>

\* the directive list handed to assert_result
DirectiveItems(validation) ==
    IF IsList(validation) THEN validation.v
    ELSE [i \in 1..Len(validation.v) |-> PyText(validation.v[i][1])]

\* the rules an extractor iterates over; a rules value that is no mapping ends
\* it at once (its handler catches the AttributeError)
RuleItems(rules) == IF IsDict(rules) THEN rules.v ELSE <<>>

\* the response is decoded, the extractors run, and the directive list is
\* handed to assert_result: core lines 134-155, base lines 95-111, business
\* lines 89-101. A text that is no JSON raises at json.loads (core) or already
\* at res.json() (base line 98, business line 92)
receive ==
    /\ fpc = "received"
    /\ \E res_json \in {ResponseJson(res.text)} :
          LET Listed(stored) ==
                  IF locals.extract_list = PyNone THEN stored
                  ELSE extract_data_list(RuleItems(locals.extract_list), res.text, stored).store
              listed ==
                  Listed(IF locals.extract = PyNone THEN extract_store
                         ELSE extract_data(RuleItems(locals.extract), res.text, extract_store).store)
          IN IF ~res_json.ok
             THEN /\ Leave(Propagate(<<"JSONDecodeError">>, idx, Len(case_list)), handles)
                  /\ UNCHANGED <<extract_store, events, expected, response, status_code, pc,
                                 attempt, evals, strategy_calls, last_eval, outcome>>
             ELSE /\ Leave([fpc |-> "asserting", idx |-> idx, flow_exc |-> <<>>], handles)
                  /\ extract_store' = listed
                  /\ events' = events
                         \o (IF locals.extract = PyNone THEN <<>> ELSE <<<<"extract", idx>>>>)
                         \o (IF locals.extract_list = PyNone THEN <<>> ELSE <<<<"extract_list", idx>>>>)
                         \o <<<<"assert", idx>>>>
                  /\ expected' = DirectiveItems(locals.validation)
                  /\ response' = res_json.val
                  /\ status_code' = res.status_code
                  /\ pc' = "start"
                  /\ attempt' = 0
                  /\ evals' = 0
                  /\ strategy_calls' = 0
                  /\ last_eval' = NoEval
                  /\ outcome' = Outcome("none", <<>>)
    /\ UNCHANGED <<flow_inputs, case_list, locals, res, calls,
                   business_error_mapping, business_logic_errors>>

\* assert_result has ended: its exception reaches the caller, or the next
\* case of the list begins (business line 62), or the execution returns
finish_case ==
    /\ fpc = "asserting"
    /\ pc = "done"
    /\ pc' = "idle"
    /\ IF outcome.kind = "raised"
       THEN Leave(Propagate(outcome.exc, idx, Len(case_list)), handles)
       ELSE IF idx < Len(case_list)
       THEN Leave([fpc |-> "case", idx |-> idx + 1, flow_exc |-> <<>>], handles)
       ELSE Leave([fpc |-> "returned", idx |-> idx, flow_exc |-> <<>>], handles)
    /\ UNCHANGED <<flow_inputs, case_list, locals, res, calls, events, extract_store,
                   business_error_mapping, business_logic_errors, expected, response,
                   status_code, attempt, evals, strategy_calls, last_eval, outcome>>

(***************************************************************************)
(* The inputs the specifications draw from                                 *)
(***************************************************************************)
MaxDirectives == 2

Pair(k, v) == <<k, v>>
Dict1(k, v) == PyDict(<<Pair(k, v)>>)
Dict2(k1, v1, k2, v2) == PyDict(<<Pair(k1, v1), Pair(k2, v2)>>)

\* response bodies
BodyOk == Dict2("code", PyInt("0"), "msg", PyText("ok"))
BodyOne == Dict1("code", PyInt("1"))
BodyNull == Dict1("code", PyNone)
BodyNoneText == Dict1("code", PyText("None"))
BodyUserNotFound == Dict1("code", PyText("USER_NOT_FOUND"))
BodyInvalidToken == Dict2("error_code", PyText("INVALID_TOKEN"), "code", PyInt("0"))
BodyNested == Dict2("data", Dict1("code", PyList(<<PyNone, PyInt("1")>>)), "msg", PyText("ok"))
BodyCodeList == Dict1("code", PyList(<<PyInt("1")>>))
BodyArray == PyList(<<Dict1("code", PyInt("0"))>>)
Bodies == {BodyOk, BodyOne, BodyNull, BodyNoneText, BodyUserNotFound, BodyInvalidToken,
           BodyNested, BodyCodeList, BodyArray}

\* status codes: no catalog entry, a non-retryable one, retryable ones of 3 and 5 attempts
StatusCodes == {PyInt("200"), PyInt("400"), PyInt("503"), PyInt("408")}

\* directives
EqCode0 == Dict1("eq", Dict1("code", PyInt("0")))
EqCodeMsg == Dict1("eq", Dict2("code", PyInt("0"), "msg", PyText("ok")))
NeCode0 == Dict1("ne", Dict1("code", PyInt("0")))
EqText == Dict1("eq", PyText("code"))
NeText == Dict1("ne", PyText("code"))
ContainsNONE == Dict1("contains", Dict1("code", PyText("NONE")))
ContainsNone == Dict1("contains", Dict1("code", PyText("None")))
ContainsStatusMsg == Dict1("contains", Dict2("status_code", PyInt("200"), "msg", PyText("o")))
RvCode0 == Dict1("rv", Dict1("code", PyInt("0")))
DbQuery == Dict1("db", PyText("select 1"))
UnknownKey == Dict1("regex", Dict1("code", PyInt("0")))
Mixed == PyDict(<<Pair("ne", Dict1("code", PyInt("1"))), Pair("regex", PyText("c.*")),
                  Pair("eq", Dict1("msg", PyText("ok")))>>)
Directives == {EqCode0, EqCodeMsg, NeCode0, EqText, NeText, ContainsNONE, ContainsNone,
               ContainsStatusMsg, RvCode0, DbQuery, UnknownKey, Mixed}

ExpectedLists == UNION {[1..n -> Directives] : n \in 0..MaxDirectives}

\* the store before any case has run
InitialStore == [n \in {"token", "ids"} |->
                   IF n = "token" THEN PyText("abc") ELSE PyList(<<PyText("7"), PyText("8")>>)]

assert_vars == <<business_error_mapping, business_logic_errors, expected, response, status_code,
                 pc, attempt, evals, strategy_calls, last_eval, outcome>>
resolve_vars == <<extract_store, data, use_handler, rpc, resolved>>
extract_vars == <<testcase_extract, res_text, use_list, epc, extract_caught>>
flow_vars == <<layer, base_info, case_list, given, fpc, idx, locals, res, calls, events,
               handles, flow_exc>>
vars == <<assert_vars, resolve_vars, extract_vars, flow_vars>>

\* no case is being executed
FlowIdle ==
    /\ layer = "core"
    /\ base_info = PyNone
    /\ case_list = <<>>
    /\ given = [base_info |-> PyNone, case_list |-> <<>>]
    /\ fpc = "idle"
    /\ idx = 1
    /\ locals = NoLocals
    /\ res = NoResponse
    /\ calls = <<>>
    /\ events = <<>>
    /\ handles = <<>>
    /\ flow_exc = <<>>

\* the assertion engine after construction, about to be called
AssertIdle ==
    /\ business_error_mapping = BuiltinErrorMapping
    /\ business_logic_errors = BuiltinLogicErrors
    /\ attempt = 0
    /\ evals = 0
    /\ strategy_calls = 0
    /\ last_eval = NoEval
    /\ outcome = Outcome("none", <<>>)

ResolveIdle ==
    /\ extract_store = InitialStore
    /\ resolved = Resolved(<<>>, PyNone, 0)

\* no extractor is running
ExtractIdle ==
    /\ testcase_extract = <<>>
    /\ res_text = ""
    /\ use_list = FALSE
    /\ epc = "idle"
    /\ extract_caught = <<>>

InitAssert ==
    /\ AssertIdle
    /\ pc = "start"
    /\ expected \in ExpectedLists
    /\ response \in Bodies
    /\ status_code \in StatusCodes
    /\ ResolveIdle
    /\ rpc = "idle"
    /\ data = PyNone
    /\ use_handler = FALSE
    /\ ExtractIdle
    /\ FlowIdle

NextAssert ==
    \/ assert_result /\ UNCHANGED <<resolve_vars, extract_vars, flow_vars>>
    \/ _handle_business_error /\ UNCHANGED <<resolve_vars, extract_vars, flow_vars>>

SpecAssert == InitAssert /\ [][NextAssert]_vars

\* single directives, for the properties of one strategy: contains payloads
\* with a matched, an unmatched and a missing field and a status of another
\* type; eq and ne payloads of one and two keys, equal or not to the body's,
\* or sharing no key with it; rv payloads with a path as expected value, a
\* missing key, and a key whose actual value is a path
ContainsCode1 == Dict1("contains", Dict1("code", PyText("1")))
ContainsMsgNope == Dict1("contains", Dict2("msg", PyText("zz"), "nope", PyInt("0")))
ContainsStatusText == Dict1("contains", Dict2("status_code", PyText("200"), "code", PyInt("0")))
NeCodeMsg == Dict1("ne", Dict2("code", PyInt("0"), "msg", PyText("ok")))
EqOther == Dict1("eq", Dict1("other", PyInt("1")))
NeOther == Dict1("ne", Dict1("other", PyInt("1")))
RvMsgPath == Dict1("rv", Dict1("msg", PyText("$.msg")))
RvRef0 == Dict1("rv", Dict1("ref", PyInt("0")))
RvCodeNope == Dict1("rv", Dict2("code", PyInt("0"), "nope", PyInt("1")))
DirectiveSamples ==
    {ContainsNONE, ContainsNone, ContainsStatusMsg, ContainsCode1, ContainsMsgNope,
     ContainsStatusText, EqCode0, EqCodeMsg, NeCode0, NeCodeMsg, EqOther, NeOther,
     RvCode0, RvMsgPath, RvRef0, RvCodeNope}

\* a body one of whose values is a path into the body itself
BodyRef == Dict2("code", PyInt("0"), "ref", PyText("$.code"))
DirectiveBodies == Bodies \cup {BodyRef}

\* assert_result called with one directive
InitDirective ==
    /\ AssertIdle
    /\ pc = "start"
    /\ expected \in {<<d>> : d \in DirectiveSamples}
    /\ response \in DirectiveBodies
    /\ status_code \in StatusCodes
    /\ ResolveIdle
    /\ rpc = "idle"
    /\ data = PyNone
    /\ use_handler = FALSE
    /\ ExtractIdle
    /\ FlowIdle

SpecDirective == InitDirective /\ [][NextAssert]_vars

\* texts for replace_load: a prefix, a placeholder (well formed or not), a suffix
Prefixes == {"", "a", "cost $5 ", "}"}
Placeholders ==
    {"", "${get_extract_data(token)}", "${get_extract_data(ids,-2)}", "${timestamp()}",
     "${get_extract_data(token", "${get_extract_data(token)", "${nosuch(1)}", "${token}"}
Suffixes == {"", "b", "${timestamp()}"}
Texts == {p \o h \o x : p \in Prefixes, h \in Placeholders, x \in Suffixes}

\* structures for replace_load: a header-like mapping around each text, and
\* placeholder-free headers, parameters and validation lists
Structures ==
    {Dict1("h", PyText(t)) : t \in Texts} \cup
    {PyNone, PyDict(<<>>), Dict1("n", PyNone), Dict1("ids", PyList(<<PyInt("1"), PyInt("2")>>)),
     Dict1("ids", PyList(<<>>)), Dict2("u", PyText("a"), "d", Dict1("k", PyList(<<PyText("x")>>))),
     PyList(<<EqCode0>>), PyList(<<>>)}

\* the substitution engine about to be called
InitResolve ==
    /\ ResolveIdle
    /\ rpc = "start"
    /\ data \in {PyText(t) : t \in Texts} \cup Structures
    /\ use_handler \in BOOLEAN
    /\ AssertIdle
    /\ pc = "idle"
    /\ expected = <<>>
    /\ response = PyNone
    /\ status_code = PyInt("200")
    /\ ExtractIdle
    /\ FlowIdle

\* one call of replace_load
resolve ==
    /\ rpc = "start"
    /\ \E r \in replace_load(data, use_handler) : resolved' = r
    /\ rpc' = "done"
    /\ UNCHANGED <<extract_store, data, use_handler>>

NextResolve == resolve /\ UNCHANGED <<assert_vars, extract_vars, flow_vars>>

SpecResolve == InitResolve /\ [][NextResolve]_vars

\* entries registered at runtime: any retry policy up to MaxRegisteredRetries
\* attempts, under a new status, a built-in status, or a new body code
MaxRegisteredRetries == 2
RegisteredEntries(error_code) ==
    {BusinessError("system_error", error_code, r, n, DefaultRetryDelay)
       : r \in BOOLEAN, n \in 0..MaxRegisteredRetries}
BodyCustom == Dict1("code", PyText("E_CUSTOM"))

\* an engine that is configured and then asserts
InitRegister ==
    /\ AssertIdle
    /\ pc = "configure"
    /\ expected \in {<<EqCode0>>, <<NeCode0>>, <<EqCode0, NeCode0>>}
    /\ response \in {BodyOk, BodyOne, BodyCustom}
    /\ status_code \in {PyInt("200"), PyInt("418"), PyInt("503")}
    /\ ResolveIdle
    /\ rpc = "idle"
    /\ data = PyNone
    /\ use_handler = FALSE
    /\ ExtractIdle
    /\ FlowIdle

NextRegister ==
    \/ /\ \E error_code \in {"418", "503"} : \E entry \in RegisteredEntries(error_code) :
             add_business_error_mapping(error_code, entry)
       /\ UNCHANGED <<resolve_vars, extract_vars, flow_vars>>
    \/ /\ \E entry \in RegisteredEntries("E_CUSTOM") : add_business_logic_error("E_CUSTOM", entry)
       /\ UNCHANGED <<resolve_vars, extract_vars, flow_vars>>
    \/ assert_result /\ UNCHANGED <<resolve_vars, extract_vars, flow_vars>>
    \/ _handle_business_error /\ UNCHANGED <<resolve_vars, extract_vars, flow_vars>>

SpecRegister == InitRegister /\ [][NextRegister]_vars

MaxRules == 2

\* response texts: mappings, a text that is no JSON, and an empty array
TextId == "{\"id\": 42}"
TextLogin == "{\"token\": \"abc\", \"items\": [{\"id\": 1}, {\"id\": 2}]}"
TextNotJson == "not json"
TextNullId == "{\"id\": null}"
TextEmptyArray == "[]"
ResponseTexts == {TextId, TextLogin, TextNotJson, TextNullId, TextEmptyArray}

\* extraction rules: path queries, regular expressions, and bad rules (an
\* optional digit group that can match nothing, a regular expression that does
\* not compile, a number)
RuleId == Pair("id", PyText("$.id"))
RuleIds == Pair("ids", PyText("$..id"))
RuleNope == Pair("nope", PyText("$.nope"))
RuleToken == Pair("token", PyText("\"token\": \"(.+?)\""))
RuleNum == Pair("num", PyText("\"id\": (\\d+)"))
RuleOpt == Pair("opt", PyText("n(\\d*)"))
RuleBad == Pair("bad", PyText("(.+?)["))
RuleSeven == Pair("seven", PyInt("7"))
Rules == {RuleId, RuleIds, RuleNope, RuleToken, RuleNum, RuleOpt, RuleBad, RuleSeven}

\* rules mappings: at most MaxRules rules of distinct names, in every order
RuleMappings ==
    {m \in UNION {[1..n -> Rules] : n \in 0..MaxRules} :
       \A i, j \in 1..Len(m) : i # j => m[i][1] # m[j][1]}

\* an extractor about to be called
InitExtract ==
    /\ extract_store = InitialStore
    /\ testcase_extract \in RuleMappings
    /\ res_text \in ResponseTexts
    /\ use_list \in BOOLEAN
    /\ epc = "start"
    /\ extract_caught = <<>>
    /\ resolved = Resolved(<<>>, PyNone, 0)
    /\ rpc = "idle"
    /\ data = PyNone
    /\ use_handler = FALSE
    /\ AssertIdle
    /\ pc = "idle"
    /\ expected = <<>>
    /\ response = PyNone
    /\ status_code = PyInt("200")
    /\ FlowIdle

\* one call of extract_data or extract_data_list
extract ==
    /\ epc = "start"
    /\ LET ran == IF use_list THEN extract_data_list(testcase_extract, res_text, extract_store)
                  ELSE extract_data(testcase_extract, res_text, extract_store)
       IN /\ extract_store' = ran.store
          /\ extract_caught' = ran.exc
    /\ epc' = "done"
    /\ UNCHANGED <<testcase_extract, res_text, use_list>>

NextExtract == extract /\ UNCHANGED <<assert_vars, data, use_handler, rpc, resolved, flow_vars>>

SpecExtract == InitExtract /\ [][NextExtract]_vars

\* rules that hold a capture group and a `$`, here the anchor that ends a
\* regular expression
RuleIdEnd == Pair("id", PyText("\"id\": (\\d+)}$"))
RuleWordEnd == Pair("word", PyText("not (.+?)$"))
RuleTailEnd == Pair("tail", PyText("\"id\": (.*?)$"))
BothRules == {RuleIdEnd, RuleWordEnd, RuleTailEnd}

SingleRuleMappings ==
    {m \in UNION {[1..n -> Rules \cup BothRules] : n \in 0..MaxRules} :
       \A i, j \in 1..Len(m) : i # j => m[i][1] # m[j][1]}

\* extract_data about to be called
InitSingle ==
    /\ extract_store = InitialStore
    /\ testcase_extract \in SingleRuleMappings
    /\ res_text \in ResponseTexts
    /\ use_list = FALSE
    /\ epc = "start"
    /\ extract_caught = <<>>
    /\ resolved = Resolved(<<>>, PyNone, 0)
    /\ rpc = "idle"
    /\ data = PyNone
    /\ use_handler = FALSE
    /\ AssertIdle
    /\ pc = "idle"
    /\ expected = <<>>
    /\ response = PyNone
    /\ status_code = PyInt("200")
    /\ FlowIdle

SpecSingle == InitSingle /\ [][NextExtract]_vars

MaxCases == 2

Layers == {"core", "base", "business"}

\* base_info mappings: an empty header or one that names a stored value, and
\* no cookies, cookies that name a stored value, or cookies with a placeholder
\* of an unknown function
HeaderEmpty == PyDict(<<>>)
HeaderToken == Dict1("Authorization", PyText("${get_extract_data(token)}"))
CookiesToken == Dict1("sid", PyText("${get_extract_data(token)}"))
CookiesBad == Dict1("sid", PyText("${nosuch(1)}"))
BaseInfo(header) ==
    PyDict(<<Pair("api_name", PyText("login")), Pair("url", PyText("/login")),
             Pair("method", PyText("POST")), Pair("header", header)>>)
BaseInfos ==
    {BaseInfo(h) : h \in {HeaderEmpty, HeaderToken}} \cup
    {PyDict(Append(BaseInfo(h).v, Pair("cookies", c)))
       : h \in {HeaderEmpty, HeaderToken}, c \in {CookiesToken, CookiesBad}}

\* cases: one that extracts the token of the response, one whose body names
\* the stored token, one that uploads two files, one without a name
CaseLogin ==
    PyDict(<<Pair("case_name", PyText("c1")), Pair("json", Dict1("u", PyText("a"))),
             Pair("validation", PyList(<<EqCode0>>)),
             Pair("extract", Dict1("token", PyText("$.token")))>>)
CaseUse ==
    PyDict(<<Pair("case_name", PyText("c2")),
             Pair("json", Dict1("t", PyText("${get_extract_data(token)}"))),
             Pair("validation", PyList(<<EqCode0>>))>>)
CaseUpload ==
    PyDict(<<Pair("case_name", PyText("c3")), Pair("validation", PyList(<<EqCode0>>)),
             Pair("files", Dict2("f1", PyText("a.txt"), "f2", PyText("b.txt")))>>)
CaseNoName == Dict1("validation", PyList(<<EqCode0>>))
CaseNoNameFull ==
    PyDict(<<Pair("json", Dict1("u", PyText("a"))), Pair("validation", PyList(<<EqCode0>>)),
             Pair("extract", Dict1("token", PyText("$.token"))),
             Pair("files", Dict1("f1", PyText("a.txt")))>>)
Cases == {CaseLogin, CaseUse, CaseUpload, CaseNoName, CaseNoNameFull}

\* the case lists a layer is given: one case for the single-case layers
CaseLists(which) ==
    UNION {[1..n -> Cases] : n \in 1..(IF which = "business" THEN MaxCases ELSE 1)}

\* a layer about to execute the cases it was given
InitFlow ==
    /\ layer \in Layers
    /\ base_info \in BaseInfos
    /\ case_list \in CaseLists(layer)
    /\ given = [base_info |-> base_info, case_list |-> case_list]
    /\ fpc = "start"
    /\ idx = 1
    /\ locals = NoLocals
    /\ res = NoResponse
    /\ calls = <<>>
    /\ events = <<>>
    /\ handles = <<>>
    /\ flow_exc = <<>>
    /\ ResolveIdle
    /\ rpc = "idle"
    /\ data = PyNone
    /\ use_handler = FALSE
    /\ ExtractIdle
    /\ AssertIdle
    /\ pc = "idle"
    /\ expected = <<>>
    /\ response = PyNone
    /\ status_code = PyInt("200")

flow_others == <<data, use_handler, rpc, resolved, extract_vars>>

NextFlow ==
    \/ prepare /\ UNCHANGED <<assert_vars, flow_others>>
    \/ begin_case /\ UNCHANGED <<assert_vars, flow_others>>
    \/ send /\ UNCHANGED <<assert_vars, flow_others>>
    \/ receive /\ UNCHANGED flow_others
    \/ assert_result /\ UNCHANGED <<resolve_vars, extract_vars, flow_vars>>
    \/ _handle_business_error /\ UNCHANGED <<resolve_vars, extract_vars, flow_vars>>
    \/ finish_case /\ UNCHANGED flow_others

SpecFlow == InitFlow /\ [][NextFlow]_vars

(***************************************************************************)
(* Vocabulary of the properties                                            *)
(***************************************************************************)
InChain(name, chain) == \E i \in 1..Len(chain) : chain[i] = name

\* the classification of (status_code, response) against the catalog
Classified == business_error.exc = <<>>
NoMatch == Classified /\ business_error.val = NoBusinessError
NonRetryableMatch ==
    Classified /\ business_error.val # NoBusinessError /\ ~business_error.val.retryable
RetryableMatch ==
    Classified /\ business_error.val # NoBusinessError /\ business_error.val.retryable

RECURSIVE SumOfFlags(_)
\* the sum of the failure counts the strategies of one evaluation returned
SumOfFlags(log) ==
    IF log = <<>> THEN 0
    ELSE (IF Head(log).exc = <<>> THEN Head(log).flag ELSE 0) + SumOfFlags(Tail(log))

RECURSIVE KnownPairs(_)
KnownPairs(pairs) ==
    IF pairs = <<>> THEN <<>>
    ELSE IF Head(pairs)[1] \in AssertionType THEN <<Head(pairs)>> \o KnownPairs(Tail(pairs))
    ELSE KnownPairs(Tail(pairs))

\* a validation list with every directive of an unknown key removed
KnownOnly(exp) ==
    [i \in 1..Len(exp) |-> IF IsDict(exp[i]) THEN PyDict(KnownPairs(exp[i].v)) ELSE exp[i]]

RECURSIVE CountKnown(_, _)
CountKnown(exp, i) ==
    IF i > Len(exp) THEN 0
    ELSE (IF IsDict(exp[i]) THEN Len(KnownPairs(exp[i].v)) ELSE 0) + CountKnown(exp, i + 1)

HasUnknownKey(exp) == KnownOnly(exp) # exp

\* the entries of the last evaluation's log
LogEntries == {last_eval.log[i] : i \in 1..Len(last_eval.log)}

(***************************************************************************)
(* Properties of the assertion engine (SpecAssert)                         *)
(***************************************************************************)
\* C1: whenever (status_code, body) matches a non-retryable catalog entry,
\* assert_result fails with a BusinessAssertionError and no directive
\* strategy has been evaluated before that failure.
C1_NonRetryableFailsBeforeAnyDirective ==
    (pc = "done" /\ NonRetryableMatch) =>
        /\ outcome.kind = "raised"
        /\ InChain("BusinessAssertionError", outcome.exc)
        /\ strategy_calls = 0

C3_ReturnsIffFailureSumIsZero ==
    (pc = "done" /\ NoMatch) =>
        /\ evals = 1
        /\ outcome.kind \in {"returned", "raised"}
        /\ (outcome.kind = "returned") <=>
              (last_eval.exc = <<>> /\ last_eval.completed /\ SumOfFlags(last_eval.log) = 0)
        /\ (last_eval.completed /\ SumOfFlags(last_eval.log) # 0) =>
              /\ outcome.kind = "raised"
              /\ outcome.exc = <<"AssertionError", "builtins.AssertionError">>
        /\ (outcome.kind = "raised") => Head(outcome.exc) = "AssertionError"
        /\ (expected = <<EqCode0>> /\ status_code = PyInt("200") /\ response = BodyOk) =>
              outcome.kind = "returned"
        /\ (expected = <<EqCode0>> /\ status_code = PyInt("200") /\ response = BodyOne) =>
              outcome.kind = "raised"

\* two directives ran to the end, both failed, and the call raised
C3_Witness ==
    /\ pc = "done"
    /\ NoMatch
    /\ last_eval.completed
    /\ SumOfFlags(last_eval.log) = 2
    /\ outcome.kind = "raised"

\* C4: a directive of an unknown key is skipped: no strategy runs for it, it
\* adds nothing to the failure count and raises nothing, every recognized
\* directive before and after it is still evaluated, and the verdict is the
\* verdict of the list with that directive removed.
C4_UnknownDirectiveSkipped ==
    /\ _execute_assertions(expected, response, status_code)
          = _execute_assertions(KnownOnly(expected), response, status_code)
    /\ (evals > 0) =>
          /\ last_eval \in _execute_assertions(KnownOnly(expected), response, status_code)
          /\ \A e \in LogEntries : e.key \in AssertionType
          /\ last_eval.all_flag = SumOfFlags(last_eval.log)
          /\ last_eval.completed => Len(last_eval.log) = CountKnown(expected, 1)

\* an unknown key between two recognized directives: both were evaluated and
\* the call returned
C4_Witness ==
    /\ pc = "done"
    /\ expected = <<Mixed>>
    /\ HasUnknownKey(expected)
    /\ last_eval.completed
    /\ Len(last_eval.log) = 2
    /\ last_eval.log[1].key = "ne"
    /\ last_eval.log[2].key = "eq"
    /\ outcome.kind = "returned"

\* C5: an eq or ne directive whose expected payload or whose response body is
\* not a mapping raises a type error, which ends the evaluation and escapes
\* assert_result; it never yields a failure count.
C5_NonMappingOperandRaisesTypeError ==
    \A i \in 1..Len(last_eval.log) :
       LET e == last_eval.log[i]
       IN (e.key \in {"eq", "ne"} /\ (~IsDict(e.value) \/ ~IsDict(response))) =>
             /\ e.exc = <<"TypeError">>
             /\ i = Len(last_eval.log)
             /\ last_eval.exc = <<"TypeError">>
             /\ ~last_eval.completed
             /\ SumOfFlags(last_eval.log) = SumOfFlags(SubSeq(last_eval.log, 1, i - 1))
             /\ (pc = "done") =>
                   /\ outcome.kind = "raised"
                   /\ InChain("TypeError", outcome.exc)

\* an ne directive with a text payload against a mapping body raised
C5_Witness ==
    /\ pc = "done"
    /\ expected = <<NeText>>
    /\ response = BodyOk
    /\ status_code = PyInt("200")
    /\ Len(last_eval.log) = 1
    /\ last_eval.log[1].exc = <<"TypeError">>
    /\ outcome.kind = "raised"

\* C6: an eq directive with mapping operands that share a top-level key picks
\* one common key k and compares {k: actual[k]} with the entire expected
\* mapping: 0 failures iff they are equal, 1 otherwise; so an expected mapping
\* of two or more keys never passes.
C6_EqComparesOneKeyProjection ==
    \A e \in LogEntries :
       (/\ e.key = "eq"
        /\ IsDict(e.value)
        /\ IsDict(response)
        /\ Keys(e.value) \cap Keys(response) # {}) =>
           /\ e.exc = <<>>
           /\ e.flag \in {0, 1}
           /\ \E k \in Keys(e.value) \cap Keys(response) :
                 (e.flag = 0) <=> PyEq(PyDict(<<<<k, Get(response, k)>>>>), e.value)
           /\ (e.flag = 0) =>
                 \E k \in Keys(response) :
                    /\ Keys(e.value) = {k}
                    /\ PyEq(Get(response, k), Get(e.value, k))
           /\ (Cardinality(Keys(e.value)) >= 2) => e.flag = 1

\* {"code": 0, "msg": "ok"} expected of the body {"code": 0, "msg": "ok"}: one failure
C6_Witness ==
    /\ pc = "done"
    /\ expected = <<EqCodeMsg>>
    /\ response = BodyOk
    /\ Len(last_eval.log) = 1
    /\ last_eval.log[1].exc = <<>>
    /\ last_eval.log[1].flag = 1

\* the expected value is the token NONE, in any letter case
IsNoneToken(v) == Upper(PyStr(v)) = "NONE"

\* C7: in contains_assert an expected value that is the token NONE in any
\* letter case matches a field only when some occurrence of the field in the
\* body is an actual null: {"code": null} gives 0 failures, a body whose code
\* is 0, 1 or the text "None" gives 1.
C7_NoneTokenMatchesOnlyNull ==
    \A e \in LogEntries :
       (/\ e.key = "contains"
        /\ e.exc = <<>>
        /\ IsDict(e.value)
        /\ Len(e.value.v) = 1
        /\ e.value.v[1][1] # "status_code"
        /\ IsNoneToken(e.value.v[1][2])) =>
           LET occurrences == _safe_jsonpath_extract(response, "$.." \o e.value.v[1][1])
               has_null == \E i \in 1..Len(occurrences) : occurrences[i] = PyNone
           IN /\ e.flag = (IF has_null THEN 0 ELSE 1)
              /\ (response = BodyNull) => e.flag = 0
              /\ (response \in {BodyOk, BodyOne, BodyNoneText, BodyUserNotFound}) => e.flag = 1

\* expected "NONE" matched the null code of {"code": null}
C7_Witness ==
    /\ pc = "done"
    /\ expected = <<ContainsNONE>>
    /\ response = BodyNull
    /\ Len(last_eval.log) = 1
    /\ last_eval.log[1].flag = 0
    /\ outcome.kind = "returned"

RECURSIVE IntText(_)
\* the decimal text of a natural number
IntText(n) ==
    IF n < 10 THEN SubSeq("0123456789", n + 1, n + 1)
    ELSE IntText(n \div 10) \o SubSeq("0123456789", (n % 10) + 1, (n % 10) + 1)

\* C20: when the failure counts of a case's directives sum to k > 0, the
\* error assert_result raises carries k in its message.
C20_RaisedErrorCarriesCount ==
    (/\ pc = "done"
     /\ ~RetryableMatch
     /\ evals = 1
     /\ last_eval.completed
     /\ last_eval.all_flag > 0) =>
        /\ outcome.kind = "raised"
        /\ Contains(WrappedMessage(last_eval), IntText(last_eval.all_flag))

(***************************************************************************)
(* Properties of the substitution engine (SpecResolve)                     *)
(***************************************************************************)
\* the text replace_load scans: the input itself, or its JSON text
SourceText(x) == IF IsStr(x) THEN x.v ELSE JsonDumps(x)
PlaceholderFree(x) == ~Contains(SourceText(x), "${")

\* a `${` with no closing brace after it, or a ${name(...)} whose name is not
\* a registered data function
Malformed(t) ==
    \E i \in 1..Len(t) :
       /\ MatchAt(t, "${", i)
       /\ LET close == IndexOf(t, "}", i)
              inner == SubSeq(t, i + 2, close - 1)
              paren == IndexOf(inner, "(", 1)
          IN \/ close = 0
             \/ paren # 0 /\ SubSeq(inner, 1, paren - 1) \notin RegisteredFunctions

\* C8: replace_load, with or without the list handler, is the identity on
\* every placeholder-free string or structure.
C8_IdentityOnPlaceholderFree ==
    (rpc = "done" /\ PlaceholderFree(data)) =>
        /\ resolved.exc = <<>>
        /\ PyEq(resolved.val, data)

\* C9: a placeholder-free mapping, the empty mapping included, comes back from
\* replace_load as a mapping, never as a string.
C9_MappingStaysMapping ==
    (rpc = "done" /\ IsDict(data) /\ PlaceholderFree(data)) =>
        /\ resolved.exc = <<>>
        /\ IsDict(resolved.val)

\* C10: replace_load fails with an error whenever the input text contains a
\* malformed placeholder; it never returns a result.
C10_MalformedPlaceholderFails ==
    (rpc = "done" /\ IsStr(data) /\ Malformed(data.v)) => resolved.exc # <<>>

(***************************************************************************)
(* Properties of the extraction engine (SpecExtract)                       *)
(***************************************************************************)
\* what the extractor in use does with one rule alone on the same text
RuleAlone(pair) ==
    IF use_list THEN extract_data_list(<<pair>>, res_text, InitialStore)
    ELSE extract_data(<<pair>>, res_text, InitialStore)

\* C11: a bad rule does not abort the others: every rule of the mapping that
\* on its own would write a value has that value in the store after the call,
\* wherever the bad rule stands in the mapping.
C11_BadRuleDoesNotAbortOthers ==
    (epc = "done") =>
        \A i \in 1..Len(testcase_extract) :
           LET alone == RuleAlone(testcase_extract[i])
               key == testcase_extract[i][1]
           IN (alone.exc = <<>> /\ alone.written = <<key>>) =>
                 /\ key \in DOMAIN extract_store
                 /\ extract_store[key] = alone.store[key]

\* the results of the path query of a rule on the response text; none when
\* the text is no JSON
QueryResults(rule) ==
    LET loaded == JsonLoads(res_text)
    IN IF loaded.ok THEN jsonpath(loaded.val, rule) ELSE <<>>

IsPathRule(pair) == IsStr(pair[2]) /\ Contains(pair[2].v, "$")

\* C12: after extracting with a mapping of path-query rules, every rule's name
\* holds a value in the store: the first result (extract_data) or the list of
\* results (extract_data_list) when the query matches, the fallback text when
\* it yields nothing or the text cannot be parsed.
C12_PathQueryAlwaysStores ==
    (epc = "done" /\ \A i \in 1..Len(testcase_extract) : IsPathRule(testcase_extract[i])) =>
        \A i \in 1..Len(testcase_extract) :
           LET key == testcase_extract[i][1]
               results == QueryResults(testcase_extract[i][2].v)
           IN /\ extract_caught = <<>>
              /\ key \in DOMAIN extract_store
              /\ extract_store[key] =
                    IF Len(results) = 0 THEN NoDataExtracted
                    ELSE IF use_list THEN PyList(results)
                    ELSE results[1]

(***************************************************************************)
(* Properties of the case execution                                        *)
(***************************************************************************)
\* the transport calls made for case k of the list
CallsOf(k) == {c \in 1..Len(calls) : calls[c].case = k}

\* C13: one execution invokes the transport exactly once per case, with the
\* url host + base_info url, and never again afterwards: not while the
\* response is decoded and extracted from, and not during the retries of the
\* assertion. Before the request of case idx there are idx - 1 calls, after it idx.
C13_OneTransportCallPerCase ==
    /\ \A c \in 1..Len(calls) :
          /\ calls[c].case = c
          /\ calls[c].url = Host \o Get(given.base_info, "url").v
    /\ fpc \in {"start", "case", "send"} => Len(calls) = idx - 1
    /\ fpc \in {"received", "asserting"} => Len(calls) = idx
    /\ fpc = "returned" => Len(calls) = Len(case_list)
    /\ fpc = "raised" => Len(calls) \in {idx - 1, idx}

\* the assertion of the second case is being retried, one request per case sent
C13_Witness ==
    /\ fpc = "asserting"
    /\ idx = 2
    /\ pc = "retry"
    /\ evals >= 2
    /\ Cardinality(CallsOf(1)) = 1
    /\ Cardinality(CallsOf(2)) = 1

\* C14: when the text of the response received for a case is no JSON, the
\* execution raises the decode error; no extractor and no assertion has run
\* (the store and the assertion engine are as they were), and the execution,
\* having raised, never returns
C14_UndecodableResponseRaises ==
    [][((fpc = "received" /\ ~JsonLoads(res.text).ok) =>
           (/\ fpc' = "raised"
            /\ flow_exc' = <<"JSONDecodeError">>
            /\ extract_store' = extract_store
            /\ events' = events
            /\ UNCHANGED assert_vars))
       /\ (fpc = "raised" => fpc' = "raised")]_vars

\* a case with extraction rules and a validation has raised the decode error
\* on a response that is no JSON
C14_Witness ==
    /\ fpc = "raised"
    /\ flow_exc = <<"JSONDecodeError">>
    /\ ~JsonLoads(res.text).ok
    /\ locals.extract # PyNone
    /\ Len(calls) = idx

\* C15: the cases of a flow run in list order and the flow is fail-fast: the
\* transport calls are made for increasing case indices, none for a case
\* beyond the current one; the flow moves to the next case only when the
\* assertion of the current one has returned; and once the execution of case
\* i has raised, the flow stays raised at i and no further call is made
C15_FailFastInListOrder ==
    [][/\ fpc = "raised" => (fpc' = "raised" /\ idx' = idx /\ calls' = calls)
       /\ \A c \in 1..Len(calls') :
             /\ calls'[c].case <= idx'
             /\ c > 1 => calls'[c - 1].case < calls'[c].case
       /\ idx' \in {idx, idx + 1}
       /\ idx' = idx + 1 => (fpc = "asserting" /\ outcome.kind = "returned")
       /\ (fpc = "send" /\ fpc' # "received") =>
             (fpc' = "raised" /\ flow_exc' = <<"RequestException">>)
       /\ (fpc = "asserting" /\ pc = "done" /\ outcome.kind = "raised") =>
             (fpc' = "raised" /\ flow_exc' = outcome.exc)
      ]_vars

\* a flow of two cases has raised in its first case after that case's request
\* was sent, and no request of the second case was made
C15_Witness ==
    /\ layer = "business"
    /\ Len(case_list) = 2
    /\ fpc = "raised"
    /\ idx = 1
    /\ Len(calls) = 1
    /\ CallsOf(2) = {}

\* C16: once the flow has returned or raised, the base_info and the case
\* list the caller passed hold what they held when the flow was called
C16_CallerMappingsKeepTheirFields ==
    fpc \in {"returned", "raised"} =>
        /\ base_info = given.base_info
        /\ case_list = given.case_list

\* C17: no error is suppressed: when resolving the cookies of base_info has
\* raised, the execution has raised and no request has been sent
C17_CookieErrorReachesCaller ==
    (/\ HasKey(given.base_info, "cookies")
     /\ \E e \in 1..Len(events) : events[e][1] = "cookie_error") =>
        /\ fpc = "raised"
        /\ calls = <<>>

\* the values base_info's field resolves to against the store as it is now
ResolvedNow(field) ==
    {r.val : r \in {x \in replace_load(Get(given.base_info, field), LayerHandler(layer)) :
                      x.exc = <<>>}}

\* C18: what an earlier step stored is what every substitution of a later
\* step sees: the headers and the cookies a later step is sent with are
\* base_info's headers and cookies resolved against the store as the earlier
\* steps left it (between the request and its response the store is unchanged)
C18_LaterStepsSeeStoredValues ==
    (fpc = "received" /\ idx > 1) =>
        /\ calls[idx].header \in ResolvedNow("header")
        /\ (HasKey(given.base_info, "cookies") /\ calls[idx].cookies # PyNone) =>
              calls[idx].cookies \in ResolvedNow("cookies")

\* C19: every file handle opened for a case is released once the execution
\* has returned or raised, and at most one file is opened per case
C19_HandlesReleasedOnePerCase ==
    /\ fpc \in {"returned", "raised"} => \A h \in 1..Len(handles) : ~handles[h].open
    /\ \A k \in 1..Len(case_list) :
          Cardinality({h \in 1..Len(handles) : handles[h].case = k}) <= 1

(***************************************************************************)
(* Properties of the single strategies (SpecDirective)                     *)
(***************************************************************************)
\* the occurrences of a field at any depth of the body, list values
\* flattened one level
Occurrences(field) == _safe_jsonpath_extract(response, "$.." \o field)

\* a field is unmatched, as stated: the status differs, or no occurrence has
\* the stringified expected value as a substring of its stringified form
UnmatchedAsStated(field, value) ==
    IF field = "status_code" THEN ~PyEq(value, status_code)
    ELSE \A i \in 1..Len(Occurrences(field)) :
            ~Contains(PyStr(Occurrences(field)[i]), PyStr(value))

\* the same, an expected NONE token matching an actual null and nothing else
Unmatched(field, value) ==
    IF field # "status_code" /\ IsNoneToken(value)
    THEN \A i \in 1..Len(Occurrences(field)) : Occurrences(field)[i] # PyNone
    ELSE UnmatchedAsStated(field, value)

RECURSIVE CountUnmatched(_, _)
\* the number of unmatched fields of a contains payload
CountUnmatched(pairs, as_stated) ==
    IF pairs = <<>> THEN 0
    ELSE (IF (IF as_stated THEN UnmatchedAsStated(Head(pairs)[1], Head(pairs)[2])
              ELSE Unmatched(Head(pairs)[1], Head(pairs)[2]))
          THEN 1 ELSE 0) + CountUnmatched(Tail(pairs), as_stated)

\* C21 as stated: contains_assert returns the number of unmatched fields, the
\* status_code field unmatched iff the expected value differs from the status,
\* any other field unmatched iff it has no occurrence or the stringified
\* expected value is a substring of the stringified form of none of them
C21_ContainsCountsUnmatchedFields ==
    \A e \in LogEntries :
       (e.key = "contains" /\ e.exc = <<>> /\ IsDict(e.value)) =>
           e.flag = CountUnmatched(e.value.v, TRUE)

\* C21 amended: contains_assert returns the number of unmatched fields, where
\* a field whose expected value is the token NONE (in any letter case) is
\* unmatched iff none of its occurrences is an actual null, and every other
\* field is unmatched as stated
C21_ContainsCountsUnmatchedFieldsNoneAsNull ==
    \A e \in LogEntries :
       (e.key = "contains" /\ e.exc = <<>> /\ IsDict(e.value)) =>
           e.flag = CountUnmatched(e.value.v, FALSE)

\* a payload of two fields, one with no matching occurrence and one with no
\* occurrence at all, was counted as 2
C21_Witness ==
    /\ pc = "done"
    /\ expected = <<ContainsMsgNope>>
    /\ response = BodyOk
    /\ Len(last_eval.log) = 1
    /\ last_eval.log[1].flag = 2

\* C22: with mapping operands, eq and ne both count one failure when the
\* expected mapping and the body share no top-level key; when they share one,
\* ne returns 0 iff eq returns 1 on the same operands, so an expected mapping
\* of two or more keys passes ne even when each of its pairs is in the body
C22_NeIsComplementOfEq ==
    \A e \in LogEntries :
       (e.key \in {"eq", "ne"} /\ IsDict(e.value) /\ IsDict(response)) =>
           /\ e.exc = <<>>
           /\ (Keys(e.value) \cap Keys(response) = {}) => e.flag = 1
           /\ (e.key = "ne" /\ Keys(e.value) \cap Keys(response) # {}) =>
                 /\ e.flag \in {0, 1}
                 /\ \A r \in equal_assert(e.value, response, status_code) :
                       r.exc = <<>> /\ ((e.flag = 0) <=> (r.val = 1))
                 /\ (/\ Cardinality(Keys(e.value)) >= 2
                     /\ \A k \in Keys(e.value) :
                           HasKey(response, k) /\ PyEq(Get(response, k), Get(e.value, k))) =>
                       e.flag = 0

\* ne of {"code": 0, "msg": "ok"} against the body {"code": 0, "msg": "ok"} passed
C22_Witness ==
    /\ pc = "done"
    /\ expected = <<NeCodeMsg>>
    /\ response = BodyOk
    /\ status_code = PyInt("200")
    /\ Len(last_eval.log) = 1
    /\ last_eval.log[1].flag = 0
    /\ outcome.kind = "returned"

\* an expected key of rv fails, as stated: it is missing from the body, or
\* its expected value, resolved against the body first when it is a path,
\* differs from the body's value
RvFailsAsStated(exp_key, exp_value) ==
    IF ~HasKey(response, exp_key) THEN TRUE
    ELSE IF IsStr(exp_value) /\ StartsWith(exp_value.v, "$")
    THEN \/ _safe_jsonpath_extract(response, exp_value.v) = <<>>
         \/ ~PyEq(Get(response, exp_key), _safe_jsonpath_extract(response, exp_value.v)[1])
    ELSE ~PyEq(Get(response, exp_key), exp_value)

RECURSIVE CountRvAsStated(_)
CountRvAsStated(pairs) ==
    IF pairs = <<>> THEN 0
    ELSE (IF RvFailsAsStated(Head(pairs)[1], Head(pairs)[2]) THEN 1 ELSE 0)
         + CountRvAsStated(Tail(pairs))

\* C23: in the rv directive an expected value that is a path is resolved
\* against the body and the resolved value is what is compared with the
\* body's value for the key; any other expected value is compared directly;
\* each missing key and each failed comparison counts 1
C23_RvResolvesExpectedPath ==
    \A e \in LogEntries :
       (e.key = "rv" /\ e.exc = <<>> /\ IsDict(e.value) /\ IsDict(response)) =>
           e.flag = CountRvAsStated(e.value.v)

(***************************************************************************)
(* Termination of the substitution (SpecResolve)                           *)
(***************************************************************************)
\* the placeholder starting at position i of t is ${name(args)} with a
\* registered name, and every result its function can give is a value whose
\* text holds no placeholder
WellFormedAt(t, i) ==
    LET close == IndexOf(t, "}", i)
        inner == SubSeq(t, i + 2, close - 1)
        paren == IndexOf(inner, "(", 1)
        func_params == SubSeq(inner, paren + 1, Len(inner) - 1)
    IN /\ close # 0
       /\ paren > 1
       /\ SubSeq(inner, Len(inner), Len(inner)) = ")"
       /\ ~Contains(inner, "$")
       /\ SubSeq(inner, 1, paren - 1) \in RegisteredFunctions
       /\ \A r \in Dispatch(SubSeq(inner, 1, paren - 1),
                             IF func_params = "" THEN <<>> ELSE Split(func_params, ",")) :
              r.exc = <<>> /\ ~Contains(PyStr(JoinIfList(r.val)), "${")

AllWellFormed(t) == \A i \in 1..Len(t) : MatchAt(t, "${", i) => WellFormedAt(t, i)

\* C24: on a text whose n placeholders are all well formed, and whose
\* functions give no placeholder back, replace_load returns after at most n
\* dispatches a text without any `${`, wherever the placeholders stand, a
\* `$` that opens no placeholder before them included
C24_ResolveTerminatesPlaceholderFree ==
    (rpc = "done" /\ IsStr(data) /\ Count(data.v, "${") > 0 /\ AllWellFormed(data.v)) =>
        /\ resolved.exc = <<>>
        /\ resolved.calls <= Count(data.v, "${")
        /\ IsStr(resolved.val)
        /\ ~Contains(resolved.val.v, "${")

(***************************************************************************)
(* Rules of both forms (SpecSingle)                                        *)
(***************************************************************************)
HasCaptureMarker(value) == \E j \in 1..Len(pattern_lst) : Contains(value, pattern_lst[j])

\* what the path query of a rule leaves, as stated: its first result, or the
\* fallback text when it has none or fails
PathOutcomeAsStated(value, body) ==
    LET Loaded(loaded) ==
            IF loaded.ok /\ Len(jsonpath(loaded.val, value)) > 0
            THEN jsonpath(loaded.val, value)[1]
            ELSE NoDataExtracted
    IN Loaded(JsonLoads(body))

\* C25: for a rule that holds both a capture marker and a `$`, extract_data
\* evaluates the regular expression and the path query and writes for both,
\* the regular expression first, so the store keeps the outcome of the path
\* query: its first result or the fallback text
C25_BothFormsLeavePathOutcome ==
    (/\ epc = "done"
     /\ Len(testcase_extract) = 1
     /\ IsStr(testcase_extract[1][2])
     /\ HasCaptureMarker(testcase_extract[1][2].v)
     /\ Contains(testcase_extract[1][2].v, "$")) =>
        /\ testcase_extract[1][1] \in DOMAIN extract_store
        /\ extract_store[testcase_extract[1][1]] =
              PathOutcomeAsStated(testcase_extract[1][2].v, res_text)

(***************************************************************************)
(* Consumption of the case fields (SpecFlow)                               *)
(***************************************************************************)
\* C26: a case without case_name ends its execution with an error before the
\* transport is called: no request is sent, nothing is extracted or
\* asserted, no file is opened and no other field of the case is consumed
C26_NamelessCaseFailsBeforeTransport ==
    [][(fpc = "case" /\ ~HasKey(case_list[idx], "case_name")) =>
          ((fpc' = "raised") /\ (flow_exc' = <<"KeyError">>)
           /\ (calls' = calls) /\ (events' = events) /\ (case_list' = case_list)
           /\ (extract_store' = extract_store) /\ (Len(handles') = Len(handles))
           /\ (pc' = pc))]_vars

C26_Witness ==
    /\ layer = "business" /\ fpc = "raised" /\ flow_exc = <<"KeyError">>
    /\ idx = 2 /\ case_list[2] = CaseNoNameFull
    /\ Len(calls) = 1 /\ calls[1].case = 1
    /\ \A i \in 1..Len(events) : events[i][2] = 1

ConsumedFields == {"case_name", "validation", "extract", "extract_list", "files"}

\* C27: case_name, validation, extract, extract_list and files are removed
\* from the case before the transport is called, so none of them is among
\* the extra parameters of the request, and executing the case so left a
\* second time fails on the missing case name: nothing is consumed or opened
\* again and nothing is sent
C27_ConsumedFieldsLeaveTheCase ==
    \A i \in 1..Len(calls) :
       /\ Keys(calls[i].kwargs) \cap ConsumedFields = {}
       /\ case_list[calls[i].case] = calls[i].kwargs
       /\ \A b \in BeginCase(layer, case_list[calls[i].case]) :
             /\ b.exc = <<"KeyError">>
             /\ b.tc = case_list[calls[i].case]
             /\ b.opened = <<>>
             /\ b.validation = PyNone /\ b.extract = PyNone /\ b.extract_list = PyNone

C27_Witness ==
    /\ fpc = "returned" /\ layer = "business"
    /\ given.case_list = <<CaseLogin, CaseUpload>>
    /\ Len(calls) = 2
    /\ calls[1].kwargs = Dict1("json", Dict1("u", PyText("a")))
    /\ calls[2].kwargs = PyDict(<<>>)
    /\ Len(handles) = 2

(***************************************************************************)
(* Entries registered at runtime (SpecRegister)                            *)
(***************************************************************************)
\* C28: for every retryable catalog entry, one registered at runtime with
\* max_retries = 0 included, assert_result evaluates the directives at least
\* once, and it returns normally only when their failure count is zero
C28_RetryableEvaluatesAtLeastOnce ==
    (pc = "done" /\ RetryableMatch) =>
        /\ evals >= 1
        /\ (outcome.kind = "returned") => (last_eval.completed /\ last_eval.all_flag = 0)

(***************************************************************************)
(* The errors that leave assert_result (SpecAssert)                        *)
(***************************************************************************)
\* C29: every error that leaves assert_result is the module's AssertionError
\* raised by its outer handler, with the error it caught as its cause: the
\* error of the classification, the error that ended the evaluation (a
\* TypeError of eq or ne, the failed verdict), or the BusinessAssertionError
\* of the exhausted retries around that error
C29_EveryErrorIsWrappedByTheHandler ==
    (pc = "done" /\ outcome.kind = "raised") =>
        /\ Len(outcome.exc) >= 2
        /\ Head(outcome.exc) = "AssertionError"
        /\ IF business_error.exc # <<>> THEN Tail(outcome.exc) = business_error.exc
           ELSE IF RetryableMatch
           THEN Tail(outcome.exc) = <<"BusinessAssertionError">> \o last_eval.exc
           ELSE Tail(outcome.exc) = last_eval.exc
        /\ last_eval.exc # <<>> \/ business_error.exc # <<>>

C29_Witness ==
    /\ pc = "done" /\ outcome.kind = "raised" /\ RetryableMatch
    /\ outcome.exc = <<"AssertionError", "BusinessAssertionError", "TypeError">>
    /\ evals = business_error.val.max_retries

(***************************************************************************)
(* Extraction and assertion of one case (SpecFlow)                         *)
(***************************************************************************)
EventsOf(kind, k) == {i \in 1..Len(events) : events[i] = <<kind, k>>}

\* C30: the extraction of a case runs before its assertion and once per
\* case, however many times the assertion engine evaluates the directives,
\* and what it stored is in the store while the assertion runs and after it
\* has failed
C30_ExtractionOnceBeforeAssertion ==
    /\ \A i \in 1..Len(events) :
          (events[i][1] = "assert") =>
              /\ Cardinality(EventsOf("assert", events[i][2])) = 1
              /\ Cardinality(EventsOf("extract", events[i][2])) =
                    (IF HasKey(given.case_list[events[i][2]], "extract") THEN 1 ELSE 0)
              /\ \A j \in EventsOf("extract", events[i][2]) : j < i
    /\ (/\ events # <<>>
        /\ events[Len(events)] = <<"assert", idx>>
        /\ fpc \in {"asserting", "raised", "returned"}
        /\ locals.extract # PyNone) =>
           \A k \in 1..Len(RuleItems(locals.extract)) :
              /\ RuleItems(locals.extract)[k][1] \in DOMAIN extract_store
              /\ extract_store[RuleItems(locals.extract)[k][1]] =
                    PathOutcomeAsStated(RuleItems(locals.extract)[k][2].v, res.text)

C30_Witness ==
    /\ fpc = "raised" /\ Head(flow_exc) = "AssertionError"
    /\ given.case_list[idx] = CaseLogin
    /\ evals = 3
    /\ Cardinality(EventsOf("extract", idx)) = 1
    /\ extract_store["token"] = PyText("t2")

====
